---- MODULE Spec2Model ----
(***************************************************************************)
(* wskv: a transactional ordered key-value store spoken over one ordered   *)
(* binary message channel.  The module models                              *)
(*   - the server store and its get / list / commit / reset handlers, in   *)
(*     its three implementations: the Go in-memory WskvServer, the         *)
(*     TypeScript db layer with range-based validation, and the TypeScript *)
(*     db layer with the flat (key, ver) validation;                       *)
(*   - the Go client transaction runtime (wskvTxn / wskvClient.txn);       *)
(*   - the protocol-level test client (WskvTestClient).                    *)
(* Keys are byte strings (sequences of naturals) compared                  *)
(* lexicographically; values are opaque tokens 1..MaxVal.                  *)
(***************************************************************************)
EXTENDS Integers, Sequences, FiniteSets, TLC

VARIABLES
    server,     \* which server implementation answers: "go", "ts", "tsObserved"
    store,      \* the server's map: key -> [value, ver], present keys only
    reqID,      \* the client's request id counter
    req,        \* the last request frame sent
    resp,       \* the last response frame received
    tcReads,    \* protocol client: the read ranges recorded for its commit
    tcCommits,  \* protocol client: commit(reads, puts, dels) calls made
    tx,         \* Go client: per transaction process, its wskvTxn and position
    others,     \* commits and imports made beside the modelled clients
    srv,        \* Go server, handler by handler: the mutex and each session's handler
    mux,        \* Go client: the connection, readLoop, the pending map, callers of send
    link,       \* Go mount process: the connections it was handed and the one it is bound to
    mount,      \* WskvMount: its socket, its reconnect timers and counter
    session     \* server: one session, the frames it has written, whether it still reads

vars == <<server, store, reqID, req, resp, tcReads, tcCommits, tx, others, srv, mux,
          link, mount, session>>

(***************************************************************************)
(* Bounds of the model.                                                    *)
(***************************************************************************)
MaxByte == 2    \* first bytes of keys range over 1..MaxByte
MaxVal == 2     \* values are 1..MaxVal
MaxReq == 4     \* request ids issued in one run of the protocol client
MaxReads == 2   \* read ranges one commit request carries
MaxWrites == 2  \* puts and deletes together in one commit request
MaxItems == 3   \* read ranges, puts and deletes together in one commit request
MaxBuffer == 1  \* keys one Go transaction buffers
MaxOther == 1   \* commits and imports made beside the modelled clients
MaxSrvReq == 1  \* requests one session sends to the handler-level server
MaxSrvWrites == 1 \* puts and deletes in a commit to the handler-level server
MaxDels == 1    \* deletes in one commit request
MaxCommits == 1 \* commit(reads, puts, dels) calls of one test body
MaxLimit == 1   \* list limits range over 0..MaxLimit
MaxServe == 3   \* requests served on the one connection
MaxSend == 3    \* calls of send made over one connection
MaxInbound == 2 \* frames the peer has sent that readLoop has not read yet
MaxConn == 3    \* connections the peer opens to the mount process
MaxLinkReq == 4 \* requests written on one connection
MaxAttempt == 6 \* reconnects WskvMount schedules without a success in between
MaxTimers == 2  \* reconnect timers of WskvMount pending at once
MaxSockets == 3 \* sockets WskvMount.doConnect opens
MaxOrder == 2   \* requests of a connection whose commits carry up to MaxWrites writes
MaxIncr == 1    \* the sum of the deltas one transaction adds to one counter
MaxFrames == 3  \* frames one server session receives
MaxRetry == 1   \* the maxRetry arguments of run range over 0..MaxRetry

\* buffer[k] = nil marks a buffered delete; an entry without value carries Nil
Nil == 0

Values == 1..MaxVal

\* The keys in use: one-byte keys b, and the key 1.0x00 that directly follows
\* the key 1 in byte order (the exclusive end of the point range of key 1).
Keys == {<<b>> : b \in 1..MaxByte} \cup {<<1, 0>>}

(***************************************************************************)
(* Byte-string order: Go string comparison, SQLite BLOB comparison.        *)
(***************************************************************************)
Min2(a, b) == IF a < b THEN a ELSE b

KeyLess(a, b) ==
    \E i \in 1..(Min2(Len(a), Len(b)) + 1) :
        /\ \A j \in 1..(i - 1) : a[j] = b[j]
        /\ \/ i > Len(a) /\ i <= Len(b)
           \/ i <= Len(a) /\ i <= Len(b) /\ a[i] < b[i]

KeyLeq(a, b) == a = b \/ KeyLess(a, b)

\* bytesEqual of the db layer: same length and same byte at every index
bytesEqual(a, b) ==
    IF Len(a) # Len(b) THEN FALSE
    ELSE \A i \in 1..Len(a) : a[i] = b[i]

\* the exclusive upper bound of a single-key point read: key . 0x00
pointKeyEnd(key) == Append(key, 0)

\* the smallest key greater than every key with the given prefix
RECURSIVE nextKeyAt(_, _)
nextKeyAt(key, p) ==
    IF p < 1 THEN <<>>
    ELSE IF key[p] < 255 THEN [key EXCEPT ![p] = key[p] + 1]
    ELSE nextKeyAt([key EXCEPT ![p] = 0], p - 1)

nextKey(key) == IF Len(key) = 0 THEN <<>> ELSE nextKeyAt(key, Len(key))

\* range bounds a request may name: the keys, and the end past the last key
Bounds == Keys \cup {nextKey(<<MaxByte>>)}

(***************************************************************************)
(* The store and the queries on it.                                        *)
(***************************************************************************)
EmptyStore == [k \in {} |-> [value |-> Nil, ver |-> 0]]

Present(s, k) == k \in DOMAIN s

\* ver as a get reports it: 0 for an absent key
VerOf(s, k) == IF k \in DOMAIN s THEN s[k].ver ELSE 0

\* ORDER BY k / sort.Strings: the keys of a set in ascending order
RECURSIVE SortKeys(_)
SortKeys(S) ==
    IF S = {} THEN <<>>
    ELSE LET m == CHOOSE x \in S : \A y \in S : KeyLeq(x, y)
         IN <<m>> \o SortKeys(S \ {m})

\* a LIMIT that lets one row too many through
TruncateOver(rows, limit) ==
    IF limit > 0 /\ Len(rows) > limit + 1 THEN SubSeq(rows, 1, limit + 1) ELSE rows

\* LIMIT ?: the first n rows when n > 0, every row when n = 0
Truncate(rows, limit) ==
    IF limit > 0 /\ Len(rows) > limit THEN SubSeq(rows, 1, limit) ELSE rows

\* SELECT k, ver FROM jfs_kv WHERE k >= ? AND k < ? ORDER BY k [LIMIT ?]
SelectRange(s, start, end, limit) ==
    Truncate(SortKeys({k \in DOMAIN s : KeyLeq(start, k) /\ KeyLess(k, end)}), limit)

Upsert(s, k, e) == [x \in (DOMAIN s) \cup {k} |-> IF x = k THEN e ELSE s[x]]

Remove(s, k) == [x \in (DOMAIN s) \ {k} |-> s[x]]

(***************************************************************************)
(* TypeScript db layer (SQLite table jfs_kv).                              *)
(***************************************************************************)
dbGet(s, key) ==
    IF key \in DOMAIN s
    THEN [found |-> TRUE, value |-> s[key].value, ver |-> s[key].ver]
    ELSE [found |-> FALSE, value |-> Nil, ver |-> 0]

dbList(s, opts) ==
    LET rows == SelectRange(s, opts.start, opts.end, opts.limit)
    IN [i \in 1..Len(rows) |->
           [key |-> rows[i],
            value |-> IF ~opts.keysOnly THEN s[rows[i]].value ELSE Nil,
            ver |-> s[rows[i]].ver]]

\* the inner loop of dbCommit over the re-scanned rows, from index i on
RECURSIVE rowsMatch(_, _, _, _)
rowsMatch(s, currentRows, rng, i) ==
    IF i > Len(currentRows) THEN TRUE
    ELSE IF ~bytesEqual(currentRows[i], rng.entries[i].key) THEN FALSE
    ELSE IF ~rng.keysOnly /\ s[currentRows[i]].ver # rng.entries[i].ver THEN FALSE
    ELSE rowsMatch(s, currentRows, rng, i + 1)

\* one read range of dbCommit: re-scan and compare with what was observed
rangeValid(s, rng) ==
    LET currentRows == SelectRange(s, rng.start, rng.end, rng.limit)
    IN IF Len(currentRows) # Len(rng.entries) THEN FALSE
       ELSE rowsMatch(s, currentRows, rng, 1)

\* a validation that stops after the first read range
readsValidFirst(s, reads, j) ==
    IF Len(reads) = 0 THEN TRUE ELSE rangeValid(s, reads[1])

\* the outer loop of dbCommit: the first failing range ends the validation
RECURSIVE readsValid(_, _, _)
readsValid(s, reads, j) ==
    IF j > Len(reads) THEN TRUE
    ELSE IF ~rangeValid(s, reads[j]) THEN FALSE
    ELSE readsValid(s, reads, j + 1)

\* an upsert that replaces the row: every put leaves version 1
sqlUpsertReplace(s, put) == Upsert(s, put.key, [value |-> put.value, ver |-> 1])

\* INSERT INTO jfs_kv (k, v, ver) VALUES (?, ?, 1)
\*   ON CONFLICT(k) DO UPDATE SET v = excluded.v, ver = ver + 1
sqlUpsert(s, put) ==
    IF put.key \in DOMAIN s
    THEN [s EXCEPT ![put.key] = [value |-> put.value, ver |-> s[put.key].ver + 1]]
    ELSE Upsert(s, put.key, [value |-> put.value, ver |-> 1])

RECURSIVE sqlPuts(_, _, _)
sqlPuts(s, puts, i) ==
    IF i > Len(puts) THEN s ELSE sqlPuts(sqlUpsert(s, puts[i]), puts, i + 1)

\* a delete loop that removes nothing
sqlDelsNone(s, dels, i) == s

\* DELETE FROM jfs_kv WHERE k = ?
RECURSIVE sqlDels(_, _, _)
sqlDels(s, dels, i) ==
    IF i > Len(dels) THEN s ELSE sqlDels(Remove(s, dels[i]), dels, i + 1)

\* dbCommit with range-based validation: [ok, error, store after]
dbCommit(s, reads, puts, dels) ==
    IF ~readsValid(s, reads, 1)
    THEN [ok |-> FALSE, error |-> "write conflict", store |-> s]
    ELSE [ok |-> TRUE, error |-> "", store |-> sqlDels(sqlPuts(s, puts, 1), dels, 1)]

\* the flat validation: every observed (key, ver) against the current version
RECURSIVE observedValid(_, _, _)
observedValid(s, observed, i) ==
    IF i > Len(observed) THEN TRUE
    ELSE IF VerOf(s, observed[i].key) # observed[i].ver THEN FALSE
    ELSE observedValid(s, observed, i + 1)

\* dbCommit of the db layer that takes the flat observed list
dbCommitObserved(s, observed, puts, dels) ==
    IF ~observedValid(s, observed, 1)
    THEN [ok |-> FALSE, error |-> "write conflict", store |-> s]
    ELSE [ok |-> TRUE, error |-> "", store |-> sqlDels(sqlPuts(s, puts, 1), dels, 1)]

dbReset(s) == EmptyStore

(***************************************************************************)
(* Go in-memory WskvServer.                                                *)
(***************************************************************************)
handleGet(s, rq) ==
    IF rq.key \in DOMAIN s
    THEN [case |-> "getResp", id |-> rq.id, value |-> s[rq.key].value,
          ver |-> s[rq.key].ver, found |-> TRUE]
    ELSE [case |-> "getResp", id |-> rq.id, value |-> Nil, ver |-> 0, found |-> FALSE]

\* a list loop that copies the value whatever KeysOnly says
RECURSIVE listEntriesWithValues(_, _, _, _, _)
listEntriesWithValues(s, keys, rq, i, entries) ==
    IF i > Len(keys) THEN entries
    ELSE IF rq.limit > 0 /\ Len(entries) >= rq.limit THEN entries
    ELSE listEntriesWithValues(s, keys, rq, i + 1,
             Append(entries,
                 [key |-> keys[i], value |-> s[keys[i]].value, ver |-> s[keys[i]].ver]))

\* the loop of handleList over the sorted keys, building entries up to the limit
RECURSIVE listEntries(_, _, _, _, _)
listEntries(s, keys, rq, i, entries) ==
    IF i > Len(keys) THEN entries
    ELSE IF rq.limit > 0 /\ Len(entries) >= rq.limit THEN entries
    ELSE listEntries(s, keys, rq, i + 1,
             Append(entries,
                 [key |-> keys[i],
                  value |-> IF ~rq.keysOnly THEN s[keys[i]].value ELSE Nil,
                  ver |-> s[keys[i]].ver]))

handleList(s, rq) ==
    LET keys == SortKeys({k \in DOMAIN s : KeyLeq(rq.start, k) /\ KeyLess(k, rq.end)})
    IN [case |-> "listResp", id |-> rq.id, entries |-> listEntries(s, keys, rq, 1, <<>>)]

\* a put that stores the value of an existing entry without bumping its version
goPutKeepVer(s, put) ==
    IF put.key \in DOMAIN s
    THEN [s EXCEPT ![put.key] = [value |-> put.value, ver |-> s[put.key].ver]]
    ELSE Upsert(s, put.key, [value |-> put.value, ver |-> 1])

\* a put that creates a new entry at version 0
goPutFromZero(s, put) ==
    IF put.key \in DOMAIN s
    THEN [s EXCEPT ![put.key] = [value |-> put.value, ver |-> s[put.key].ver + 1]]
    ELSE Upsert(s, put.key, [value |-> put.value, ver |-> 0])

\* one put of handleCommit: bump an existing entry, or create it at version 1
goPut(s, put) ==
    IF put.key \in DOMAIN s
    THEN [s EXCEPT ![put.key] = [value |-> put.value, ver |-> s[put.key].ver + 1]]
    ELSE Upsert(s, put.key, [value |-> put.value, ver |-> 1])

RECURSIVE goPuts(_, _, _)
goPuts(s, puts, i) ==
    IF i > Len(puts) THEN s ELSE goPuts(goPut(s, puts[i]), puts, i + 1)

\* a delete loop of the Go server that removes nothing
goDelsNone(s, dels, i) == s

RECURSIVE goDels(_, _, _)
goDels(s, dels, i) ==
    IF i > Len(dels) THEN s ELSE goDels(Remove(s, dels[i]), dels, i + 1)

\* a handleCommit that applies the puts before it validates
handleCommitPutsFirst(s, rq) ==
    IF ~observedValid(s, rq.observed, 1)
    THEN [ok |-> FALSE, error |-> "write conflict", store |-> goPuts(s, rq.puts, 1)]
    ELSE [ok |-> TRUE, error |-> "", store |-> goDels(goPuts(s, rq.puts, 1), rq.dels, 1)]

\* a handleCommit that applies the deletes before the puts
handleCommitDelsFirst(s, rq) ==
    IF ~observedValid(s, rq.observed, 1)
    THEN [ok |-> FALSE, error |-> "write conflict", store |-> s]
    ELSE [ok |-> TRUE, error |-> "", store |-> goPuts(goDels(s, rq.dels, 1), rq.puts, 1)]

\* handleCommit: [ok, error, store after]
handleCommit(s, rq) ==
    IF ~observedValid(s, rq.observed, 1)
    THEN [ok |-> FALSE, error |-> "write conflict", store |-> s]
    ELSE [ok |-> TRUE, error |-> "", store |-> goDels(goPuts(s, rq.puts, 1), rq.dels, 1)]

\* a reset that answers without replacing the map
handleResetKeep(s) == s

handleReset(s) == EmptyStore

\* Import: every pair is stored at version 1, over whatever was there
RECURSIVE Import(_, _, _)
Import(s, kvs, i) ==
    IF i > Len(kvs) THEN s
    ELSE Import(Upsert(s, kvs[i].key, [value |-> kvs[i].value, ver |-> 1]), kvs, i + 1)

(***************************************************************************)
(* The server behind the connection: the Go in-memory server or one of the *)
(* TypeScript servers, each answering one request frame with one response. *)
(***************************************************************************)
Servers == {"go", "ts", "tsObserved"}

ServeGet(s, rq) ==
    IF server = "go" THEN handleGet(s, rq)
    ELSE LET r == dbGet(s, rq.key)
         IN [case |-> "getResp", id |-> rq.id, value |-> r.value,
             ver |-> r.ver, found |-> r.found]

ServeList(s, rq) ==
    IF server = "go" THEN handleList(s, rq)
    ELSE [case |-> "listResp", id |-> rq.id, entries |-> dbList(s, rq)]

\* the commit handler of the range-validating TypeScript server: the read
\* ranges, puts and deletes of the request go to dbCommit as they are
tsHandleCommit(s, rq) == dbCommit(s, rq.reads, rq.puts, rq.dels)

\* [ok, error, store after] of a commit request
ServeCommit(s, rq) ==
    IF server = "go" THEN handleCommit(s, rq)
    ELSE IF server = "ts" THEN tsHandleCommit(s, rq)
    ELSE dbCommitObserved(s, rq.observed, rq.puts, rq.dels)

ServeReset(s) == IF server = "go" THEN handleReset(s) ELSE dbReset(s)

CommitResp(id, r) == [case |-> "commitResp", id |-> id, ok |-> r.ok, error |-> r.error]

NoFrame == [case |-> "none", id |-> 0]

(***************************************************************************)
(* The protocol-level client (WskvTestClient): get, list, commit, put,     *)
(* del, reset, each one request frame answered by one response frame.  A   *)
(* test body keeps what a get or a list returned as a read range and hands *)
(* the ranges to its next commit.                                          *)
(***************************************************************************)
SeqsUpTo(S, n) == UNION {[1..m -> S] : m \in 0..n}

PutRecs == [key : Keys, value : Values]

\* the puts and deletes one commit request of a test body may carry
Writes ==
    {w \in SeqsUpTo(PutRecs, MaxWrites) \X SeqsUpTo(Keys, MaxDels) :
        Len(w[1]) + Len(w[2]) <= MaxWrites}

\* the read range a test body builds from a list response
ReadOfList(rq, rs) ==
    [start |-> rq.start, end |-> rq.end,
     entries |-> [i \in 1..Len(rs.entries) |->
                     [key |-> rs.entries[i].key, ver |-> rs.entries[i].ver]],
     keysOnly |-> rq.keysOnly, limit |-> rq.limit]

\* the read range a test body builds from a get response: [key, key.0x00)
ReadOfGet(rq, rs) ==
    [start |-> rq.key, end |-> pointKeyEnd(rq.key),
     entries |-> IF rs.found THEN <<[key |-> rq.key, ver |-> rs.ver]>> ELSE <<>>,
     keysOnly |-> FALSE, limit |-> 0]

TcGet(key) ==
    /\ server = "ts"
    /\ reqID < MaxReq
    /\ tcCommits < MaxCommits
    /\ Len(tcReads) < MaxReads
    /\ LET rq == [case |-> "getReq", id |-> reqID + 1, key |-> key]
           rs == ServeGet(store, rq)
       IN /\ req' = rq
          /\ resp' = rs
          /\ tcReads' = Append(tcReads, ReadOfGet(rq, rs))
    /\ reqID' = reqID + 1
    /\ UNCHANGED <<server, store, tcCommits, tx, others, srv, mux, link, mount, session>>

TcList(start, end, keysOnly, limit) ==
    /\ server = "ts"
    /\ reqID < MaxReq
    /\ tcCommits < MaxCommits
    /\ Len(tcReads) < MaxReads
    /\ KeyLess(start, end)
    /\ LET rq == [case |-> "listReq", id |-> reqID + 1, start |-> start, end |-> end,
                  keysOnly |-> keysOnly, limit |-> limit]
           rs == ServeList(store, rq)
       IN /\ req' = rq
          /\ resp' = rs
          /\ tcReads' = Append(tcReads, ReadOfList(rq, rs))
    /\ reqID' = reqID + 1
    /\ UNCHANGED <<server, store, tcCommits, tx, others, srv, mux, link, mount, session>>

\* commit(reads, puts, dels) with the ranges recorded so far
TcCommit(puts, dels) ==
    /\ server = "ts"
    /\ reqID < MaxReq
    /\ tcCommits < MaxCommits
    /\ Len(tcReads) + Len(puts) + Len(dels) <= MaxItems
    /\ LET rq == [case |-> "commitReq", id |-> reqID + 1, reads |-> tcReads,
                  observed |-> <<>>, puts |-> puts, dels |-> dels]
           r == ServeCommit(store, rq)
       IN /\ req' = rq
          /\ resp' = CommitResp(rq.id, r)
          /\ store' = r.store
    /\ tcReads' = <<>>
    /\ tcCommits' = tcCommits + 1
    /\ reqID' = reqID + 1
    /\ UNCHANGED <<server, tx, others, srv, mux, link, mount, session>>

\* put(key, value): a commit with no read validation
TcPut(key, value) ==
    /\ server = "ts"
    /\ reqID < MaxReq
    /\ tcCommits < MaxCommits
    /\ LET rq == [case |-> "commitReq", id |-> reqID + 1, reads |-> <<>>,
                  observed |-> <<>>,
                  puts |-> <<[key |-> key, value |-> value]>>, dels |-> <<>>]
           r == ServeCommit(store, rq)
       IN /\ req' = rq
          /\ resp' = CommitResp(rq.id, r)
          /\ store' = r.store
    /\ reqID' = reqID + 1
    /\ UNCHANGED <<server, tcReads, tcCommits, tx, others, srv, mux, link, mount, session>>

\* del(key): a commit with no read validation
TcDel(key) ==
    /\ server = "ts"
    /\ reqID < MaxReq
    /\ tcCommits < MaxCommits
    /\ LET rq == [case |-> "commitReq", id |-> reqID + 1, reads |-> <<>>,
                  observed |-> <<>>, puts |-> <<>>, dels |-> <<key>>]
           r == ServeCommit(store, rq)
       IN /\ req' = rq
          /\ resp' = CommitResp(rq.id, r)
          /\ store' = r.store
    /\ reqID' = reqID + 1
    /\ UNCHANGED <<server, tcReads, tcCommits, tx, others, srv, mux, link, mount, session>>

TcReset ==
    /\ server = "ts"
    /\ reqID < MaxReq
    /\ tcCommits < MaxCommits
    /\ req' = [case |-> "resetReq", id |-> reqID + 1]
    /\ resp' = [case |-> "resetResp", id |-> reqID + 1, ok |-> TRUE, error |-> ""]
    /\ store' = ServeReset(store)
    /\ reqID' = reqID + 1
    /\ UNCHANGED <<server, tcReads, tcCommits, tx, others, srv, mux, link, mount, session>>

(***************************************************************************)
(* The Go client: wskvClient.txn runs f against a fresh wskvTxn and sends   *)
(* one commit.  tx[p] is the wskvTxn of transaction p while f runs:         *)
(*   observed  key -> version of the last read of the key (0: absent)       *)
(*   buffer    key -> buffered value, Nil for a buffered delete             *)
(* and, as history of the run: the read ranges its reads covered, each with *)
(* what it returned and with the changes sessions outside the transaction   *)
(* made inside the range since (reads), and how txn returned (result).      *)
(***************************************************************************)
Procs == {1, 2}

\* a read range of the history: which operation read it, no change since
Ranged(op, r) ==
    [op |-> op, start |-> r.start, end |-> r.end, entries |-> r.entries,
     keysOnly |-> r.keysOnly, limit |-> r.limit, events |-> {}]

\* what a committed write of value v (Nil: a delete) does to key k of store s
KindOf(s, k, v) ==
    IF v # Nil THEN (IF k \in DOMAIN s THEN "update" ELSE "insert")
    ELSE (IF k \in DOMAIN s THEN "delete" ELSE "none")

\* the history after another session committed the buffer on store s
Touch(reads, s, buffer) ==
    [i \in 1..Len(reads) |->
        [reads[i] EXCEPT !.events = @ \cup
            {[kind |-> KindOf(s, k, buffer[k]), key |-> k] :
                k \in {x \in DOMAIN buffer :
                          /\ KeyLeq(reads[i].start, x)
                          /\ KeyLess(x, reads[i].end)
                          /\ KindOf(s, x, buffer[x]) # "none"}}]]

EmptyMap == [k \in {} |-> 0]

\* no get has returned yet
NoRet == [key |-> <<>>, value |-> Nil]

\* a nil error
NoErr == <<>>

\* no send of this transaction has returned an error; otherwise fail holds
\* the request that failed last (rpc), the state of the connection when its
\* frame was written (conn) and the error send returned (err)
NoFail == [rpc |-> "none", conn |-> "none", err |-> NoErr]

\* tx := &wskvTxn{...} as txn makes it, f about to run; with it the retry
\* argument of txn, the error f returned (err), what the last get returned
\* (ret), and the retry budget of the run the call belongs to (maxRetry)
NewTxn == [pc |-> "run", observed |-> EmptyMap, buffer |-> EmptyMap,
           reads |-> <<>>, result |-> "none",
           ret |-> NoRet, err |-> NoErr, retry |-> 0, maxRetry |-> 0,
           fail |-> NoFail, last |-> EmptyMap, incr |-> EmptyMap,
           cancelled |-> FALSE]

\* the loop of scan / exist over the entries of a list response
RECURSIVE observeEntries(_, _, _)
observeEntries(observed, entries, i) ==
    IF i > Len(entries) THEN observed
    ELSE observeEntries(Upsert(observed, entries[i].key, entries[i].ver), entries, i + 1)

\* wskvTxn.get of a key that is not buffered: a get request, whose version
\* is recorded and whose value, nil when not found, is returned
get(p, key) ==
    /\ server # "ts"
    /\ tx[p].pc = "run"
    /\ key \notin DOMAIN tx[p].buffer
    /\ Len(tx[p].reads) < MaxReads
    /\ LET rq == [case |-> "getReq", id |-> reqID + 1, key |-> key]
           rs == ServeGet(store, rq)
       IN /\ req' = rq
          /\ resp' = rs
          /\ tx' = [tx EXCEPT ![p].observed = Upsert(@, key, rs.ver),
                              ![p].reads = Append(@, Ranged("get", ReadOfGet(rq, rs))),
                              ![p].ret = [key |-> key,
                                          value |-> IF rs.found THEN rs.value ELSE Nil]]
    /\ reqID' = reqID + 1
    /\ UNCHANGED <<server, store, tcReads, tcCommits, others, srv, mux, link, mount, session>>

\* a get of a buffered key that asks the server all the same
getBufferedAsks(p, key) ==
    /\ server # "ts"
    /\ tx[p].pc = "run"
    /\ key \in DOMAIN tx[p].buffer
    /\ LET rq == [case |-> "getReq", id |-> reqID + 1, key |-> key]
           rs == ServeGet(store, rq)
       IN /\ req' = rq
          /\ resp' = rs
          /\ tx' = [tx EXCEPT ![p].observed = Upsert(@, key, rs.ver),
                              ![p].ret = [key |-> key,
                                          value |-> IF rs.found THEN rs.value ELSE Nil]]
    /\ reqID' = reqID + 1
    /\ UNCHANGED <<server, store, tcReads, tcCommits, others, srv, mux, link, mount, session>>

\* wskvTxn.get of a buffered key: the buffered value is returned, nil for a
\* buffered delete, and nothing is sent or recorded
getBuffered(p, key) ==
    /\ server # "ts"
    /\ tx[p].pc = "run"
    /\ key \in DOMAIN tx[p].buffer
    /\ tx' = [tx EXCEPT ![p].ret = [key |-> key, value |-> tx[p].buffer[key]]]
    /\ UNCHANGED <<server, store, reqID, req, resp, tcReads, tcCommits, others, srv, mux, link, mount, session>>

\* wskvTxn.scan with a handler that consumes every entry
scan(p, begin, end, keysOnly) ==
    /\ server # "ts"
    /\ tx[p].pc = "run"
    /\ Len(tx[p].reads) < MaxReads
    /\ KeyLess(begin, end)
    /\ LET rq == [case |-> "listReq", id |-> reqID + 1, start |-> begin, end |-> end,
                  keysOnly |-> keysOnly, limit |-> 0]
           rs == ServeList(store, rq)
       IN /\ req' = rq
          /\ resp' = rs
          /\ tx' = [tx EXCEPT ![p].observed = observeEntries(@, rs.entries, 1),
                              ![p].reads = Append(@, Ranged("scan", ReadOfList(rq, rs)))]
    /\ reqID' = reqID + 1
    /\ UNCHANGED <<server, store, tcReads, tcCommits, others, srv, mux, link, mount, session>>

\* wskvTxn.exist: a key-only list of [prefix, nextKey(prefix)) with limit 1
exist(p, prefix) ==
    /\ server # "ts"
    /\ tx[p].pc = "run"
    /\ Len(tx[p].reads) < MaxReads
    /\ LET rq == [case |-> "listReq", id |-> reqID + 1, start |-> prefix,
                  end |-> nextKey(prefix), keysOnly |-> TRUE, limit |-> 1]
           rs == ServeList(store, rq)
       IN /\ req' = rq
          /\ resp' = rs
          /\ tx' = [tx EXCEPT ![p].observed = observeEntries(@, rs.entries, 1),
                              ![p].reads = Append(@, Ranged("exist", ReadOfList(rq, rs)))]
    /\ reqID' = reqID + 1
    /\ UNCHANGED <<server, store, tcReads, tcCommits, others, srv, mux, link, mount, session>>

\* the keys transaction p may buffer: the second transaction one more
BufferOf(p) == MaxBuffer + p - 1

\* a set that does not overwrite a buffered delete
setKeepsDelete(p, key, value) ==
    /\ server # "ts"
    /\ tx[p].pc = "run"
    /\ Cardinality(DOMAIN tx[p].buffer \cup {key}) <= BufferOf(p)
    /\ tx' = [tx EXCEPT ![p].buffer = IF key \in DOMAIN @ /\ @[key] = Nil
                                      THEN @ ELSE Upsert(@, key, value),
                        ![p].last = Upsert(@, key, [op |-> "set", value |-> value])]
    /\ UNCHANGED <<server, store, reqID, req, resp, tcReads, tcCommits, others, srv, mux, link, mount, session>>

\* wskvTxn.set / wskvTxn.delete: buffered, nothing is sent; tx.buffer[k] =
\* value, where a nil value is what delete stores. The history keeps the
\* last call made on each key (last).
set(p, key, value) ==
    /\ server # "ts"
    /\ tx[p].pc = "run"
    /\ Cardinality(DOMAIN tx[p].buffer \cup {key}) <= BufferOf(p)
    /\ tx' = [tx EXCEPT ![p].buffer = Upsert(@, key, value),
                        ![p].last = Upsert(@, key, [op |-> "set", value |-> value])]
    /\ UNCHANGED <<server, store, reqID, req, resp, tcReads, tcCommits, others, srv, mux, link, mount, session>>

delete(p, key) ==
    /\ server # "ts"
    /\ tx[p].pc = "run"
    /\ Cardinality(DOMAIN tx[p].buffer \cup {key}) <= BufferOf(p)
    /\ tx' = [tx EXCEPT ![p].buffer = Upsert(@, key, Nil),
                        ![p].last = Upsert(@, key, [op |-> "delete", value |-> Nil])]
    /\ UNCHANGED <<server, store, reqID, req, resp, tcReads, tcCommits, others, srv, mux, link, mount, session>>

\* the counter a value holds: unsigned, fixed width, 0 for no value; the
\* counters of the model stay far below the width
parseCounter(buf) == IF buf = Nil THEN 0 ELSE buf

packCounter(n) == n

\* the keys that hold counters: one that is absent at the start, one that is not
CounterKeys == {<<1>>, <<2>>}

\* the deltas incrBy is called with
Deltas == {0, 1}

\* an incrBy that reads the counter without recording its version
incrByBlind(p, key, d) ==
    /\ server # "ts"
    /\ tx[p].pc = "run"
    /\ d # 0 => Cardinality(DOMAIN tx[p].buffer \cup {key}) <= BufferOf(p)
    /\ key \notin DOMAIN tx[p].buffer => Len(tx[p].reads) < MaxReads
    /\ (IF key \in DOMAIN tx[p].incr THEN tx[p].incr[key].sum ELSE 0) + d <= MaxIncr
    /\ LET buffered == key \in DOMAIN tx[p].buffer
           rq == [case |-> "getReq", id |-> reqID + 1, key |-> key]
           rs == ServeGet(store, rq)
           buf == IF buffered THEN tx[p].buffer[key]
                  ELSE IF rs.found THEN rs.value ELSE Nil
           new == parseCounter(buf) + d
           sum == IF key \in DOMAIN tx[p].incr THEN tx[p].incr[key].sum ELSE 0
       IN /\ req' = IF buffered THEN req ELSE rq
          /\ resp' = IF buffered THEN resp ELSE rs
          /\ reqID' = IF buffered THEN reqID ELSE reqID + 1
          /\ tx' = [tx EXCEPT
                      ![p].reads = IF buffered THEN @
                                   ELSE Append(@, Ranged("get", ReadOfGet(rq, rs))),
                      ![p].buffer = IF d # 0 THEN Upsert(@, key, packCounter(new)) ELSE @,
                      ![p].last = IF d # 0
                                  THEN Upsert(@, key, [op |-> "set", value |-> packCounter(new)])
                                  ELSE @,
                      ![p].incr = Upsert(@, key, [sum |-> sum + d, d |-> d]),
                      ![p].ret = [key |-> key, value |-> new]]
    /\ UNCHANGED <<server, store, tcReads, tcCommits, others, srv, mux, link, mount, session>>

\* wskvTxn.incrBy: buf := tx.get(key), the buffered value or a get request
\* whose version is recorded; new := parseCounter(buf) + value; when value is
\* not 0, tx.set(key, packCounter(new)); new is returned. The history keeps
\* the delta of the call and the sum of the deltas on the key (incr).
incrBy(p, key, d) ==
    /\ server # "ts"
    /\ tx[p].pc = "run"
    /\ d # 0 => Cardinality(DOMAIN tx[p].buffer \cup {key}) <= BufferOf(p)
    /\ key \notin DOMAIN tx[p].buffer => Len(tx[p].reads) < MaxReads
    /\ (IF key \in DOMAIN tx[p].incr THEN tx[p].incr[key].sum ELSE 0) + d <= MaxIncr
    /\ LET buffered == key \in DOMAIN tx[p].buffer
           rq == [case |-> "getReq", id |-> reqID + 1, key |-> key]
           rs == ServeGet(store, rq)
           buf == IF buffered THEN tx[p].buffer[key]
                  ELSE IF rs.found THEN rs.value ELSE Nil
           new == parseCounter(buf) + d
           sum == IF key \in DOMAIN tx[p].incr THEN tx[p].incr[key].sum ELSE 0
       IN /\ req' = IF buffered THEN req ELSE rq
          /\ resp' = IF buffered THEN resp ELSE rs
          /\ reqID' = IF buffered THEN reqID ELSE reqID + 1
          /\ tx' = [tx EXCEPT
                      ![p].observed = IF buffered THEN @ ELSE Upsert(@, key, rs.ver),
                      ![p].reads = IF buffered THEN @
                                   ELSE Append(@, Ranged("get", ReadOfGet(rq, rs))),
                      ![p].buffer = IF d # 0 THEN Upsert(@, key, packCounter(new)) ELSE @,
                      ![p].last = IF d # 0
                                  THEN Upsert(@, key, [op |-> "set", value |-> packCounter(new)])
                                  ELSE @,
                      ![p].incr = Upsert(@, key, [sum |-> sum + d, d |-> d]),
                      ![p].ret = [key |-> key, value |-> new]]
    /\ UNCHANGED <<server, store, tcReads, tcCommits, others, srv, mux, link, mount, session>>

\* the context handed to txn is cancelled while f runs: txn, send and the
\* operations of wskvTxn never look at it, so only the history changes
cancel(p) ==
    /\ server # "ts"
    /\ tx[p].pc = "run"
    /\ ~tx[p].cancelled
    /\ tx' = [tx EXCEPT ![p].cancelled = TRUE]
    /\ UNCHANGED <<server, store, reqID, req, resp, tcReads, tcCommits, others, srv, mux, link, mount, session>>

\* the commit message txn builds from the observed map and the buffer
ObservedOf(observed) ==
    LET keys == SortKeys(DOMAIN observed)
    IN [i \in 1..Len(keys) |-> [key |-> keys[i], ver |-> observed[keys[i]]]]

PutsOf(buffer) ==
    LET keys == SortKeys({k \in DOMAIN buffer : buffer[k] # Nil})
    IN [i \in 1..Len(keys) |-> [key |-> keys[i], value |-> buffer[keys[i]]]]

DelsOf(buffer) == SortKeys({k \in DOMAIN buffer : buffer[k] = Nil})

CommitReqOf(id, t) ==
    [case |-> "commitReq", id |-> id, reads |-> <<>>,
     observed |-> ObservedOf(t.observed), puts |-> PutsOf(t.buffer),
     dels |-> DelsOf(t.buffer)]

\* a txn that sends its commit even when nothing is buffered
txnAlwaysCommits(p) ==
    /\ server # "ts"
    /\ tx[p].pc = "run"
    /\ LET rq == CommitReqOf(reqID + 1, tx[p])
           r == ServeCommit(store, rq)
       IN /\ req' = rq
          /\ resp' = CommitResp(rq.id, r)
          /\ store' = r.store
          /\ reqID' = reqID + 1
          /\ tx' = [tx EXCEPT ![p].pc = "done",
                              ![p].result = IF r.ok THEN "ok" ELSE "write conflict"]
    /\ UNCHANGED <<server, tcReads, tcCommits, others, srv, mux, link, mount, session>>

\* wskvClient.txn after f returned nil: a read-only transaction sends nothing,
\* any other sends one commit and reports a refusal as "write conflict"
txn(p) ==
    /\ server # "ts"
    /\ tx[p].pc = "run"
    /\ IF DOMAIN tx[p].buffer = {}
       THEN /\ tx' = [tx EXCEPT ![p].pc = "done", ![p].result = "readonly"]
            /\ UNCHANGED <<store, reqID, req, resp, srv, mux, link, mount, session>>
       ELSE LET rq == CommitReqOf(reqID + 1, tx[p])
                r == ServeCommit(store, rq)
            IN /\ req' = rq
               /\ resp' = CommitResp(rq.id, r)
               /\ store' = r.store
               /\ reqID' = reqID + 1
               /\ tx' = [q \in Procs |->
                            IF q = p
                            THEN [tx[p] EXCEPT !.pc = "done",
                                     !.result = IF r.ok THEN "ok" ELSE "write conflict"]
                            ELSE IF tx[q].pc = "run" /\ r.ok
                            THEN [tx[q] EXCEPT !.reads = Touch(@, store, tx[p].buffer)]
                            ELSE tx[q]]
    /\ UNCHANGED <<server, tcReads, tcCommits, others, srv, mux, link, mount, session>>

\* a transaction of another client session whose f only writes one key: it
\* observes nothing, so its commit is never refused
OtherTxn(key, value) ==
    /\ server # "ts"
    /\ others < MaxOther
    /\ LET t == [NewTxn EXCEPT !.buffer = Upsert(@, key, value)]
           r == ServeCommit(store, CommitReqOf(0, t))
       IN /\ store' = r.store
          /\ tx' = [p \in Procs |->
                       IF tx[p].pc = "run"
                       THEN [tx[p] EXCEPT !.reads = Touch(@, store, t.buffer)]
                       ELSE tx[p]]
    /\ others' = others + 1
    /\ UNCHANGED <<server, reqID, req, resp, tcReads, tcCommits, srv, mux, link, mount, session>>

\* the errors f may return, as the words of their messages: a domain error,
\* and an error that passes on a write conflict met inside f
Errors == {<<"EIO">>, <<"inner", "write conflict">>}

\* a txn that carries on to the commit although f returned an error
txnErrCommits(p, err) ==
    /\ server # "ts"
    /\ tx[p].pc = "run"
    /\ LET rq == CommitReqOf(reqID + 1, tx[p])
           r == ServeCommit(store, rq)
       IN /\ req' = rq
          /\ resp' = CommitResp(rq.id, r)
          /\ store' = r.store
          /\ reqID' = reqID + 1
          /\ tx' = [tx EXCEPT ![p].pc = "done", ![p].result = "error", ![p].err = err]
    /\ UNCHANGED <<server, tcReads, tcCommits, others, srv, mux, link, mount, session>>

\* wskvClient.txn when f returned an error: the error is returned at once,
\* nothing is sent and the buffer is dropped with the wskvTxn
txnErr(p, err) ==
    /\ server # "ts"
    /\ tx[p].pc = "run"
    /\ tx' = [tx EXCEPT ![p].pc = "done", ![p].result = "error", ![p].err = err]
    /\ UNCHANGED <<server, store, reqID, req, resp, tcReads, tcCommits, others, srv, mux, link, mount, session>>

\* the error txn returned: nil after a commit or a read-only run, the error
\* fmt.Errorf("write conflict") after a refusal, f's error otherwise
ErrOf(t) ==
    IF t.result = "write conflict" THEN <<"write conflict">>
    ELSE IF t.result = "error" THEN t.err
    ELSE NoErr

\* a shouldRetry that takes no error for a conflict
shouldRetryNever(err) == FALSE

\* shouldRetry: strings.Contains(err.Error(), "write conflict")
shouldRetry(err) == \E i \in 1..Len(err) : err[i] = "write conflict"

\* run(f, maxRetry): txn returned an error that shouldRetry takes for a
\* conflict and the budget is not used up; f is called again, on a new wskvTxn
runRetry(p) ==
    /\ server # "ts"
    /\ tx[p].pc = "done"
    /\ ErrOf(tx[p]) # NoErr
    /\ shouldRetry(ErrOf(tx[p]))
    /\ tx[p].retry < tx[p].maxRetry
    /\ tx' = [tx EXCEPT ![p] = [NewTxn EXCEPT !.retry = tx[p].retry + 1,
                                              !.maxRetry = tx[p].maxRetry]]
    /\ UNCHANGED <<server, store, reqID, req, resp, tcReads, tcCommits, others, srv, mux, link, mount, session>>

\* run(f, maxRetry) returns what the last txn returned
runReturn(p) ==
    /\ server # "ts"
    /\ tx[p].pc = "done"
    /\ ~(/\ ErrOf(tx[p]) # NoErr
         /\ shouldRetry(ErrOf(tx[p]))
         /\ tx[p].retry < tx[p].maxRetry)
    /\ tx' = [tx EXCEPT ![p].pc = "returned"]
    /\ UNCHANGED <<server, store, reqID, req, resp, tcReads, tcCommits, others, srv, mux, link, mount, session>>

\* the errors of wskvClient.send: fmt.Errorf("websocket closed") after a nil
\* on the channel, and the error WriteMessage returned
ErrClosed == <<"websocket closed">>

ErrWrite == <<"write:", "broken pipe">>

\* the errors send can return when its frame is written on a connection in
\* state conn: on an open one the frame goes out and the connection fails
\* before the response is routed, so nil arrives on the channel; on a failed
\* one the write returns an error, or is accepted and nil arrives
SendErrors(conn) == IF conn = "open" THEN {ErrClosed} ELSE {ErrClosed, ErrWrite}

\* wskvTxn.get when send returns an error: version 0 is recorded for the key
\* and nil is returned, as for a key that is not found
getLost(p, key, e) ==
    /\ server # "ts"
    /\ tx[p].pc = "run"
    /\ key \notin DOMAIN tx[p].buffer
    /\ reqID < MaxReq
    /\ e \in SendErrors(mux.conn)
    /\ req' = [case |-> "getReq", id |-> reqID + 1, key |-> key]
    /\ reqID' = reqID + 1
    /\ tx' = [tx EXCEPT ![p].observed = Upsert(@, key, 0),
                        ![p].ret = [key |-> key, value |-> Nil],
                        ![p].fail = [rpc |-> "get", conn |-> mux.conn, err |-> e]]
    /\ mux' = [mux EXCEPT !.conn = "failed"]
    /\ UNCHANGED <<server, store, resp, tcReads, tcCommits, others, srv, link, mount, session>>

\* wskvTxn.scan when send returns an error: it returns, the handler not called
scanLost(p, begin, end, keysOnly, e) ==
    /\ server # "ts"
    /\ tx[p].pc = "run"
    /\ reqID < MaxReq
    /\ KeyLess(begin, end)
    /\ e \in SendErrors(mux.conn)
    /\ req' = [case |-> "listReq", id |-> reqID + 1, start |-> begin, end |-> end,
               keysOnly |-> keysOnly, limit |-> 0]
    /\ reqID' = reqID + 1
    /\ tx' = [tx EXCEPT ![p].fail = [rpc |-> "scan", conn |-> mux.conn, err |-> e]]
    /\ mux' = [mux EXCEPT !.conn = "failed"]
    /\ UNCHANGED <<server, store, resp, tcReads, tcCommits, others, srv, link, mount, session>>

\* wskvTxn.exist when send returns an error: it returns false
existLost(p, prefix, e) ==
    /\ server # "ts"
    /\ tx[p].pc = "run"
    /\ reqID < MaxReq
    /\ e \in SendErrors(mux.conn)
    /\ req' = [case |-> "listReq", id |-> reqID + 1, start |-> prefix,
               end |-> nextKey(prefix), keysOnly |-> TRUE, limit |-> 1]
    /\ reqID' = reqID + 1
    /\ tx' = [tx EXCEPT ![p].fail = [rpc |-> "exist", conn |-> mux.conn, err |-> e]]
    /\ mux' = [mux EXCEPT !.conn = "failed"]
    /\ UNCHANGED <<server, store, resp, tcReads, tcCommits, others, srv, link, mount, session>>

\* wskvClient.txn when the send of its commit returns an error: the error is
\* returned as it is. A frame written on an open connection may have been
\* applied by the server before the connection failed, or not.
txnLost(p, e, applied) ==
    /\ server # "ts"
    /\ tx[p].pc = "run"
    /\ DOMAIN tx[p].buffer # {}
    /\ reqID < MaxReq
    /\ e \in SendErrors(mux.conn)
    /\ applied => mux.conn = "open"
    /\ LET rq == CommitReqOf(reqID + 1, tx[p])
       IN /\ req' = rq
          /\ store' = IF applied THEN ServeCommit(store, rq).store ELSE store
    /\ reqID' = reqID + 1
    /\ tx' = [tx EXCEPT ![p].pc = "done", ![p].result = "error", ![p].err = e,
                        ![p].fail = [rpc |-> "commit", conn |-> mux.conn, err |-> e]]
    /\ mux' = [mux EXCEPT !.conn = "failed"]
    /\ UNCHANGED <<server, resp, tcReads, tcCommits, others, srv, link, mount, session>>

\* a send whose frame is accepted by a failed connection after readLoop has
\* returned: nothing ever arrives on its channel
sendBlocked(p) ==
    /\ server # "ts"
    /\ tx[p].pc = "run"
    /\ reqID < MaxReq
    /\ mux.conn = "failed"
    /\ reqID' = reqID + 1
    /\ tx' = [tx EXCEPT ![p].pc = "blocked"]
    /\ UNCHANGED <<server, store, req, resp, tcReads, tcCommits, others, srv, mux, link, mount, session>>

\* the buffer after the handler of reset has called kt.delete on every entry
RECURSIVE deleteEntries(_, _, _)
deleteEntries(buffer, entries, i) ==
    IF i > Len(entries) THEN buffer
    ELSE deleteEntries(Upsert(buffer, entries[i].key, Nil), entries, i + 1)

\* wskvClient.reset of a non-empty prefix, the f it hands to txn: f calls
\* wskvClient.scan, a list request of [prefix, nextKey(prefix)) sent by the
\* client itself, and its handler buffers a delete for every entry; the
\* wskvTxn records no version. The history keeps what the scan returned.
resetScan(p, prefix) ==
    /\ server # "ts"
    /\ tx[p] = NewTxn
    /\ Len(prefix) > 0
    /\ LET rq == [case |-> "listReq", id |-> reqID + 1, start |-> prefix,
                  end |-> nextKey(prefix), keysOnly |-> FALSE, limit |-> 0]
           rs == ServeList(store, rq)
       IN /\ req' = rq
          /\ resp' = rs
          /\ tx' = [tx EXCEPT ![p].buffer = deleteEntries(@, rs.entries, 1),
                              ![p].reads = <<Ranged("reset", ReadOfList(rq, rs))>>]
    /\ reqID' = reqID + 1
    /\ UNCHANGED <<server, store, tcReads, tcCommits, others, srv, mux, link, mount, session>>

\* wskvClient.reset of the empty prefix: one reset request, no transaction
resetAll(p) ==
    /\ server # "ts"
    /\ tx[p] = NewTxn
    /\ req' = [case |-> "resetReq", id |-> reqID + 1]
    /\ resp' = [case |-> "resetResp", id |-> reqID + 1, ok |-> TRUE, error |-> ""]
    /\ store' = ServeReset(store)
    /\ reqID' = reqID + 1
    /\ tx' = [tx EXCEPT ![p].pc = "done", ![p].result = "ok"]
    /\ UNCHANGED <<server, tcReads, tcCommits, others, srv, mux, link, mount, session>>

\* one transaction running against sessions that commit around it
NextTxn ==
    \/ \E k \in Keys : get(1, k)
    \/ \E a \in Keys, b \in Bounds, ko \in BOOLEAN : scan(1, a, b, ko)
    \/ \E k \in Keys : exist(1, k)
    \/ \E k \in Keys, v \in Values : set(1, k, v)
    \/ \E k \in Keys : delete(1, k)
    \/ txn(1)
    \/ \E k \in Keys, v \in Values \cup {Nil} : OtherTxn(k, v)

NextTc ==
    \/ \E k \in Keys : TcGet(k)
    \/ \E a \in Keys, b \in Bounds, ko \in BOOLEAN, l \in 0..MaxLimit : TcList(a, b, ko, l)
    \/ \E w \in Writes : TcCommit(w[1], w[2])
    \/ \E k \in Keys, v \in Values : TcPut(k, v)
    \/ \E k \in Keys : TcDel(k)
    \/ TcReset

SeqRange(q) == {q[i] : i \in 1..Len(q)}

(***************************************************************************)
(* The Go WskvServer handler by handler.  Every connection has its own     *)
(* Serve loop, so handlers of different sessions run side by side; s.mu    *)
(* orders what they do while they hold it.  store is s.store with the      *)
(* entries it points to.  A session holds, while its handleGet runs, the   *)
(* entry pointer it looked up: "live" while s.store still maps the key to  *)
(* that entry, "detached" with the entry's last content once a delete, a   *)
(* reset or an import took the entry out of the map.                       *)
(* seen is history: the (found, value, ver) the key of a running get had   *)
(* at the lookup, and has after each put and each commit begun since.      *)
(***************************************************************************)
Sess == {1, 2}

NilEntry == [value |-> Nil, ver |-> 0]

IdleSession ==
    [pc |-> "idle", rq |-> NoFrame, resp |-> NoFrame, entry |-> "nil",
     snap |-> NilEntry, i |-> 0, half |-> "none", seen |-> {}, n |-> 0]

IdleSrv == [mu |-> 0, sess |-> [c \in Sess |-> IdleSession]]

KeyState(s, k) ==
    IF k \in DOMAIN s
    THEN [found |-> TRUE, value |-> s[k].value, ver |-> s[k].ver]
    ELSE [found |-> FALSE, value |-> Nil, ver |-> 0]

\* what the entry pointer of session c points to
Contents(c) ==
    IF srv.sess[c].entry = "live" THEN store[srv.sess[c].rq.key] ELSE srv.sess[c].snap

\* the sessions after the entries of the keys in gone left the map of store s
Detach(sess, s, gone) ==
    [c \in Sess |->
        IF sess[c].entry = "live" /\ sess[c].rq.key \in gone
        THEN [sess[c] EXCEPT !.entry = "detached", !.snap = s[sess[c].rq.key]]
        ELSE sess[c]]

\* the history of the running gets on the given keys, with their state in s
Saw(sess, s, keys) ==
    [c \in Sess |->
        IF sess[c].pc \in {"getValue", "getVer"} /\ sess[c].rq.key \in keys
        THEN [sess[c] EXCEPT !.seen = @ \cup {KeyState(s, sess[c].rq.key)}]
        ELSE sess[c]]

SrvRest == <<server, reqID, req, resp, tcReads, tcCommits, tx, mux, link, mount, session>>

\* handleGet up to s.mu.Unlock(): the lookup of the entry pointer
GetLookup(c, key) ==
    /\ srv.mu = 0
    /\ srv.sess[c].pc = "idle"
    /\ srv.sess[c].n < MaxSrvReq
    /\ srv' = [srv EXCEPT !.sess[c] =
                 [@ EXCEPT !.pc = IF key \in DOMAIN store THEN "getValue" ELSE "idle",
                           !.rq = [case |-> "getReq", id |-> srv.sess[c].n + 1, key |-> key],
                           !.resp = [case |-> "getResp", id |-> srv.sess[c].n + 1,
                                     value |-> Nil,
                                     ver |-> 0, found |-> FALSE],
                           !.entry = IF key \in DOMAIN store THEN "live" ELSE "nil",
                           !.seen = {KeyState(store, key)},
                           !.n = @ + 1]]
    /\ UNCHANGED <<store, others, SrvRest>>

\* resp.Value = entry.value, read without the mutex
GetValue(c) ==
    /\ srv.sess[c].pc = "getValue"
    /\ srv' = [srv EXCEPT !.sess[c].resp.value = Contents(c).value,
                          !.sess[c].pc = "getVer"]
    /\ UNCHANGED <<store, others, SrvRest>>

\* resp.Ver = entry.ver; resp.Found = true, read without the mutex
GetVer(c) ==
    /\ srv.sess[c].pc = "getVer"
    /\ srv' = [srv EXCEPT !.sess[c].resp.ver = Contents(c).ver,
                          !.sess[c].resp.found = TRUE,
                          !.sess[c].pc = "idle"]
    /\ UNCHANGED <<store, others, SrvRest>>

\* handleList: the whole scan runs with the mutex held
ListLocked(c, start, end, keysOnly, limit) ==
    /\ srv.mu = 0
    /\ srv.sess[c].pc = "idle"
    /\ srv.sess[c].n < MaxSrvReq
    /\ KeyLess(start, end)
    /\ LET rq == [case |-> "listReq", id |-> srv.sess[c].n + 1, start |-> start,
                  end |-> end, keysOnly |-> keysOnly, limit |-> limit]
       IN srv' = [srv EXCEPT !.sess[c].rq = rq,
                             !.sess[c].resp = handleList(store, rq),
                             !.sess[c].n = @ + 1]
    /\ UNCHANGED <<store, others, SrvRest>>

\* handleCommit from s.mu.Lock() through the check of the observed versions:
\* a refusal answers and unlocks, otherwise the puts follow with the mutex held
CommitLock(c, observed, puts, dels) ==
    /\ srv.mu = 0
    /\ srv.sess[c].pc = "idle"
    /\ srv.sess[c].n < MaxSrvReq
    /\ LET rq == [case |-> "commitReq", id |-> srv.sess[c].n + 1, reads |-> <<>>,
                  observed |-> observed, puts |-> puts, dels |-> dels]
       IN IF ~observedValid(store, observed, 1)
          THEN srv' = [srv EXCEPT !.sess[c].rq = rq,
                                  !.sess[c].resp = CommitResp(rq.id,
                                      [ok |-> FALSE, error |-> "write conflict"]),
                                  !.sess[c].n = @ + 1]
          ELSE srv' = [srv EXCEPT !.mu = c,
                                  !.sess[c].rq = rq,
                                  !.sess[c].pc = "puts",
                                  !.sess[c].i = 1,
                                  !.sess[c].half = "none",
                                  !.sess[c].n = @ + 1]
    /\ UNCHANGED <<store, others, SrvRest>>

\* one of the two writes of a put to an existing entry, entry.ver++ and
\* entry.value = put.Value: a get that reads the entry without the mutex races
\* with them and may see either one first
PutField(c, f) ==
    /\ srv.sess[c].pc = "puts"
    /\ srv.sess[c].i <= Len(srv.sess[c].rq.puts)
    /\ f # srv.sess[c].half
    /\ LET put == srv.sess[c].rq.puts[srv.sess[c].i]
           last == srv.sess[c].half # "none"
       IN /\ put.key \in DOMAIN store
          /\ store' = IF f = "ver"
                      THEN [store EXCEPT ![put.key].ver = @ + 1]
                      ELSE [store EXCEPT ![put.key].value = put.value]
          /\ srv' = [srv EXCEPT
                        !.sess = IF last
                                 THEN [srv.sess EXCEPT ![c].half = "none", ![c].i = @ + 1]
                                 ELSE [Saw(srv.sess, goPut(store, put), {put.key}) EXCEPT
                                          ![c].half = f]]
    /\ UNCHANGED <<others, SrvRest>>

\* a put of an absent key: a new entry at version 1 enters the map
PutNew(c) ==
    /\ srv.sess[c].pc = "puts"
    /\ srv.sess[c].i <= Len(srv.sess[c].rq.puts)
    /\ LET put == srv.sess[c].rq.puts[srv.sess[c].i]
       IN /\ put.key \notin DOMAIN store
          /\ store' = Upsert(store, put.key, [value |-> put.value, ver |-> 1])
          /\ srv' = [srv EXCEPT !.sess = [Saw(srv.sess, store', {put.key}) EXCEPT
                                             ![c].i = @ + 1]]
    /\ UNCHANGED <<others, SrvRest>>

\* the deletes, the answer and the deferred s.mu.Unlock()
CommitUnlock(c) ==
    /\ srv.sess[c].pc = "puts"
    /\ srv.sess[c].i > Len(srv.sess[c].rq.puts)
    /\ store' = goDels(store, srv.sess[c].rq.dels, 1)
    /\ srv' = [srv EXCEPT
                  !.mu = 0,
                  !.sess = [Saw(Detach(srv.sess, store,
                                       SeqRange(srv.sess[c].rq.dels) \cap DOMAIN store),
                                store', Keys)
                            EXCEPT ![c].pc = "idle",
                                   ![c].resp = CommitResp(srv.sess[c].rq.id,
                                                   [ok |-> TRUE, error |-> ""])]]
    /\ UNCHANGED <<others, SrvRest>>

\* handleReset: a new empty map replaces s.store
ResetLocked(c) ==
    /\ srv.mu = 0
    /\ srv.sess[c].pc = "idle"
    /\ srv.sess[c].n < MaxSrvReq
    /\ store' = handleReset(store)
    /\ srv' = [srv EXCEPT
                  !.sess = [Detach(srv.sess, store, DOMAIN store) EXCEPT
                               ![c].rq = [case |-> "resetReq", id |-> srv.sess[c].n + 1],
                               ![c].resp = [case |-> "resetResp", id |-> srv.sess[c].n + 1,
                                            ok |-> TRUE, error |-> ""],
                               ![c].n = @ + 1]]
    /\ UNCHANGED <<others, SrvRest>>

\* WskvServer.Import, called beside the connections: new entries at version 1
ImportLocked(kvs) ==
    /\ srv.mu = 0
    /\ others < MaxOther
    /\ store' = Import(store, kvs, 1)
    /\ srv' = [srv EXCEPT !.sess = Detach(srv.sess, store,
                                       {kvs[j].key : j \in 1..Len(kvs)} \cap DOMAIN store)]
    /\ others' = others + 1
    /\ UNCHANGED SrvRest

(***************************************************************************)
(* One connection served message by message: WskvServer.Serve reads a       *)
(* frame, hands it to the handler of its case and writes the answer, for    *)
(* whatever requests the peer sends.                                        *)
(***************************************************************************)
\* the point range [key, key.0x00) a range-validating commit carries for an
\* observed (key, ver): one entry, or none for the version of an absent key
ReadOfObserved(o) ==
    [start |-> o.key, end |-> pointKeyEnd(o.key),
     entries |-> IF o.ver > 0 THEN <<[key |-> o.key, ver |-> o.ver]>> ELSE <<>>,
     keysOnly |-> FALSE, limit |-> 0]

ReadsOfObserved(observed) == [i \in 1..Len(observed) |-> ReadOfObserved(observed[i])]

ServeGetReq(key) ==
    /\ reqID < MaxServe
    /\ LET rq == [case |-> "getReq", id |-> reqID + 1, key |-> key]
       IN /\ req' = rq
          /\ resp' = ServeGet(store, rq)
    /\ reqID' = reqID + 1
    /\ UNCHANGED <<server, store, tcReads, tcCommits, tx, others, srv, mux, link, mount, session>>

ServeListReq(start, end, keysOnly, limit) ==
    /\ reqID < MaxServe
    /\ KeyLess(start, end)
    /\ LET rq == [case |-> "listReq", id |-> reqID + 1, start |-> start, end |-> end,
                  keysOnly |-> keysOnly, limit |-> limit]
       IN /\ req' = rq
          /\ resp' = ServeList(store, rq)
    /\ reqID' = reqID + 1
    /\ UNCHANGED <<server, store, tcReads, tcCommits, tx, others, srv, mux, link, mount, session>>

ServeCommitReq(observed, puts, dels) ==
    /\ reqID < MaxServe
    /\ LET rq == [case |-> "commitReq", id |-> reqID + 1,
                  reads |-> ReadsOfObserved(observed),
                  observed |-> observed, puts |-> puts, dels |-> dels]
           r == ServeCommit(store, rq)
       IN /\ req' = rq
          /\ resp' = CommitResp(rq.id, r)
          /\ store' = r.store
    /\ reqID' = reqID + 1
    /\ UNCHANGED <<server, tcReads, tcCommits, tx, others, srv, mux, link, mount, session>>

ServeResetReq ==
    /\ reqID < MaxServe
    /\ req' = [case |-> "resetReq", id |-> reqID + 1]
    /\ resp' = [case |-> "resetResp", id |-> reqID + 1, ok |-> TRUE, error |-> ""]
    /\ store' = ServeReset(store)
    /\ reqID' = reqID + 1
    /\ UNCHANGED <<server, tcReads, tcCommits, tx, others, srv, mux, link, mount, session>>

(***************************************************************************)
(* The connection multiplexer of the Go client: wskvClient.send and        *)
(* wskvClient.readLoop over one websocket connection.                      *)
(***************************************************************************)
Callers == {1, 2}

\* frames from the peer: a response carrying the id of its request, and a
\* frame of a case readLoop's switch does not list
RespMsg(id) == [case |-> "resp", id |-> id]

Notification == [case |-> "notification", id |-> 0]

\* the nil that readLoop puts on a channel to signal an error
NilMsg == [case |-> "nil", id |-> 0]

IdleCaller == [pc |-> "idle", id |-> 0, resp |-> NilMsg, err |-> "nil"]

\* conn: "open", or "failed" once reads on it return an error;
\* reader: readLoop's position; pending: the ids in c.pending; ch[id]: the
\* channel made by the send of request id (capacity 1); snapshot, visited:
\* the keys pending.Range started from and the keys it has called back for;
\* wire: requests written and not answered; inbound: frames not yet read
IdleMux ==
    [conn |-> "open", reader |-> "read", pending |-> {},
     ch |-> [i \in 1..(MaxSend + 1) |-> <<>>],
     snapshot |-> {}, visited |-> {},
     wire |-> {}, inbound |-> <<>>,
     caller |-> [c \in Callers |-> IdleCaller]]

MuxRest == <<server, store, req, resp, tcReads, tcCommits, tx, others, srv, link, mount, session>>

nextID == reqID + 1

\* send, up to the marshalling: the id taken by the caller, the channel made
\* and stored in pending
sendStore(c) ==
    /\ mux.caller[c].pc \in {"idle", "returned"}
    /\ reqID < MaxSend
    /\ reqID' = nextID
    /\ mux' = [mux EXCEPT !.pending = @ \cup {nextID},
                          !.ch[nextID] = <<>>,
                          !.caller[c] = [pc |-> "stored", id |-> nextID,
                                         resp |-> NilMsg, err |-> "nil"]]
    /\ UNCHANGED MuxRest

\* send: WriteMessage under wsMu. On an open connection the write succeeds;
\* on a failed one it returns an error or is accepted and lost.
sendWrite(c, ok) ==
    /\ mux.caller[c].pc = "stored"
    /\ mux.conn = "open" => ok
    /\ LET id == mux.caller[c].id
       IN IF ok
          THEN mux' = [mux EXCEPT !.wire = IF mux.conn = "open" THEN @ \cup {id} ELSE @,
                                  !.caller[c].pc = "wait"]
          ELSE mux' = [mux EXCEPT !.pending = @ \ {id},
                                  !.caller[c].pc = "returned",
                                  !.caller[c].err = "write error"]
    /\ UNCHANGED <<reqID, MuxRest>>

\* send: resp := <-ch, nil taken for "websocket closed"
sendReceive(c) ==
    /\ mux.caller[c].pc = "wait"
    /\ mux.ch[mux.caller[c].id] # <<>>
    /\ LET id == mux.caller[c].id
           m == Head(mux.ch[id])
       IN mux' = [mux EXCEPT !.ch[id] = Tail(@),
                             !.caller[c].pc = "returned",
                             !.caller[c].resp = m,
                             !.caller[c].err = IF m = NilMsg THEN "websocket closed"
                                               ELSE "nil"]
    /\ UNCHANGED <<reqID, MuxRest>>

\* a readLoop that hands a response to the channel of any pending request
readLoopFrameAny ==
    /\ mux.reader = "read"
    /\ mux.inbound # <<>>
    /\ LET m == Head(mux.inbound)
       IN IF m.case = "resp" /\ mux.pending # {}
          THEN \E id \in mux.pending :
                  /\ Len(mux.ch[id]) < 1
                  /\ mux' = [mux EXCEPT !.inbound = Tail(@),
                                        !.pending = @ \ {id},
                                        !.ch[id] = Append(@, m)]
          ELSE mux' = [mux EXCEPT !.inbound = Tail(@)]
    /\ UNCHANGED <<reqID, MuxRest>>

\* readLoop: ReadMessage returned a frame; a frame of an unlisted case is
\* skipped, a response goes to the channel stored under its id, if any
readLoopFrame ==
    /\ mux.reader = "read"
    /\ mux.inbound # <<>>
    /\ LET m == Head(mux.inbound)
       IN IF m.case = "resp" /\ m.id \in mux.pending
          THEN /\ Len(mux.ch[m.id]) < 1
               /\ mux' = [mux EXCEPT !.inbound = Tail(@),
                                     !.pending = @ \ {m.id},
                                     !.ch[m.id] = Append(@, m)]
          ELSE mux' = [mux EXCEPT !.inbound = Tail(@)]
    /\ UNCHANGED <<reqID, MuxRest>>

\* readLoop: ReadMessage returned an error; pending.Range begins
readLoopErr ==
    /\ mux.reader = "read"
    /\ mux.conn = "failed"
    /\ mux' = [mux EXCEPT !.reader = "range",
                          !.inbound = <<>>,
                          !.snapshot = mux.pending,
                          !.visited = {}]
    /\ UNCHANGED <<reqID, MuxRest>>

\* readLoop: the callback of pending.Range for one key, ch <- nil
readLoopRange(id) ==
    /\ mux.reader = "range"
    /\ id \in mux.pending \ mux.visited
    /\ Len(mux.ch[id]) < 1
    /\ mux' = [mux EXCEPT !.ch[id] = Append(@, NilMsg),
                          !.visited = @ \cup {id}]
    /\ UNCHANGED <<reqID, MuxRest>>

\* readLoop: pending.Range is over, having called back for every key that was
\* there when it began and still is (a key stored meanwhile may be missed);
\* readLoop returns
readLoopReturn ==
    /\ mux.reader = "range"
    /\ (mux.snapshot \cap mux.pending) \subseteq mux.visited
    /\ mux' = [mux EXCEPT !.reader = "stopped"]
    /\ UNCHANGED <<reqID, MuxRest>>

\* the peer answers a request it has received
peerAnswers(id) ==
    /\ mux.conn = "open"
    /\ id \in mux.wire
    /\ Len(mux.inbound) < MaxInbound
    /\ mux' = [mux EXCEPT !.wire = @ \ {id},
                          !.inbound = Append(@, RespMsg(id))]
    /\ UNCHANGED <<reqID, MuxRest>>

\* the peer sends a frame that is not a response
peerNotifies ==
    /\ mux.conn = "open"
    /\ Len(mux.inbound) < MaxInbound
    /\ mux' = [mux EXCEPT !.inbound = Append(@, Notification)]
    /\ UNCHANGED <<reqID, MuxRest>>

\* the connection closes or breaks: reads on it fail from now on
connFails ==
    /\ mux.conn = "open"
    /\ mux' = [mux EXCEPT !.conn = "failed"]
    /\ UNCHANGED <<reqID, MuxRest>>

(***************************************************************************)
(* The mount process and its connections: main of juicefs-cfmount hands    *)
(* each connection the peer opens to SetWskvConnection.                    *)
(***************************************************************************)
Conns == 1..MaxConn

\* ws: globalWskvClient.ws, 0 for nil; ready: the channel globalWskvClient.ready;
\* readers: the connections a readLoop reads; readySent: the connections a
\* ReadyNotification was written on; main: "wait" at <-connCh, "bound" after
\* SetWskvConnection, "serving" once the reconnection goroutine ranges over
\* connCh; handed: the connection that goroutine took and has to announce;
\* panicked: the process died of a run-time panic; opened: connections the
\* peer has opened; offered: the connection whose handler waits at connCh,
\* 0 for none; down: connections that failed; written, answered: the
\* requests written on and the responses routed from each connection
NoLink ==
    [ws |-> 0, ready |-> "open", readers |-> {}, readySent |-> {},
     main |-> "wait", handed |-> 0, panicked |-> FALSE, opened |-> 0,
     offered |-> 0, down |-> {},
     written |-> [n \in Conns |-> 0], answered |-> [n \in Conns |-> 0]]

LinkRest == <<server, store, reqID, req, resp, tcReads, tcCommits, tx, others, srv, mux, mount, session>>

\* SetWskvConnection: the connection is stored, ready is closed and a
\* readLoop is started; close of a channel that is closed already panics
SetWskvConnection(l, ws) ==
    IF l.ready = "closed"
    THEN [l EXCEPT !.ws = ws, !.panicked = TRUE]
    ELSE [l EXCEPT !.ws = ws, !.ready = "closed", !.readers = @ \cup {ws}]

\* the peer opens a connection and sends its InitNotification; the handler
\* then waits to put the connection on connCh
peerConnects ==
    /\ ~link.panicked
    /\ link.opened < MaxConn
    /\ link.offered = 0
    /\ link' = [link EXCEPT !.opened = @ + 1, !.offered = link.opened + 1]
    /\ UNCHANGED LinkRest

\* main, or later the reconnection goroutine, takes the connection from
\* connCh and calls SetWskvConnection
takeConn ==
    /\ ~link.panicked
    /\ link.offered # 0
    /\ link.handed = 0
    /\ link.main \in {"wait", "serving"}
    /\ LET n == link.offered
           l == SetWskvConnection([link EXCEPT !.offered = 0], n)
       IN link' = IF link.main = "wait"
                  THEN [l EXCEPT !.main = "bound"]
                  ELSE [l EXCEPT !.handed = IF l.panicked THEN 0 ELSE n]
    /\ UNCHANGED LinkRest

\* sendReady: main after its set-up, the reconnection goroutine after its
\* SetWskvConnection, write a ReadyNotification on the connection they took
sendReady ==
    /\ ~link.panicked
    /\ \/ /\ link.main = "bound"
          /\ link' = [link EXCEPT !.main = "serving", !.readySent = @ \cup {1}]
       \/ /\ link.main = "serving"
          /\ link.handed # 0
          /\ link' = [link EXCEPT !.handed = 0, !.readySent = @ \cup {link.handed}]
    /\ UNCHANGED LinkRest

\* wskvClient.send writes a request on c.ws
linkSend ==
    /\ ~link.panicked
    /\ link.ws # 0
    /\ link.ws \notin link.down
    /\ link.written[link.ws] < MaxLinkReq
    /\ link' = [link EXCEPT !.written[link.ws] = @ + 1]
    /\ UNCHANGED LinkRest

\* a readLoop takes the response to a request from the connection it reads
linkAnswer(n) ==
    /\ ~link.panicked
    /\ n \in link.readers
    /\ n \notin link.down
    /\ link.answered[n] < link.written[n]
    /\ link' = [link EXCEPT !.answered[n] = @ + 1]
    /\ UNCHANGED LinkRest

\* a connection fails; the readLoop that reads it returns
linkDrops(n) ==
    /\ ~link.panicked
    /\ n <= link.opened
    /\ n \notin link.down
    /\ link' = [link EXCEPT !.down = @ \cup {n}, !.readers = @ \ {n}]
    /\ UNCHANGED LinkRest

(***************************************************************************)
(* WskvMount of the Durable Object side (index.ts): connect, close and the *)
(* reconnect timers.                                                       *)
(***************************************************************************)
\* ws: this.ws, 0 for null; live: the sockets doConnect opened whose close
\* event has not fired; made: sockets opened so far; connecting: this.connecting
\* is set, a doConnect is under way; waiters: the calls of connect() made by
\* timer callbacks that wait for it; closed: this.closed; reconnectTimer: the
\* handle in this.reconnectTimer, 0 for null; timers: the setTimeout callbacks
\* pending, by handle and delay in ms; reconnectAttempt: this.reconnectAttempt;
\* sched: the delays scheduled since the last doConnect that succeeded;
\* wasReset: a doConnect succeeded after two or more reconnects were scheduled
NewMount ==
    [ws |-> 0, live |-> {}, made |-> 0, connecting |-> FALSE, waiters |-> 0,
     closed |-> FALSE, reconnectTimer |-> 0, timers |-> {},
     reconnectAttempt |-> 0, sched |-> <<>>, wasReset |-> FALSE, closing |-> {}]

MountRest ==
    <<server, store, reqID, req, resp, tcReads, tcCommits, tx, others, srv, mux, link, session>>

RECURSIVE Pow2(_)
Pow2(n) == IF n = 0 THEN 1 ELSE 2 * Pow2(n - 1)

\* a getBackoffMs that does not cap the delay
getBackoffMsNoCap(reconnectAttempt) == 1000 * Pow2(reconnectAttempt)

\* getBackoffMs: Math.min(1000 * Math.pow(2, this.reconnectAttempt), 10_000)
getBackoffMs(reconnectAttempt) == Min2(1000 * Pow2(reconnectAttempt), 10000)

\* a handle setTimeout has not given out to a pending callback
FreeTimer(m) == CHOOSE i \in 1..(MaxTimers + 1) : \A t \in m.timers : t.id # i

\* scheduleReconnect: nothing when closed; else the delay is computed, the
\* counter incremented and a timer set whose handle goes to reconnectTimer
scheduleReconnect(m) ==
    IF m.closed THEN m
    ELSE LET id == FreeTimer(m)
             delay == getBackoffMs(m.reconnectAttempt)
         IN [m EXCEPT !.reconnectAttempt = @ + 1,
                      !.reconnectTimer = id,
                      !.timers = @ \cup {[id |-> id, delay |-> delay]},
                      !.sched = Append(@, delay)]

\* scheduleReconnect called n times in a row
RECURSIVE scheduleReconnects(_, _)
scheduleReconnects(m, n) ==
    IF n = 0 THEN m ELSE scheduleReconnects(scheduleReconnect(m), n - 1)

\* room, within the bounds, for n more reconnects to be scheduled
Room(m, n) ==
    \/ m.closed
    \/ /\ m.reconnectAttempt + n <= MaxAttempt
       /\ Cardinality(m.timers) + n <= MaxTimers

\* connect() called by the application with no socket and no attempt under
\* way: doConnect starts (with a socket or an attempt under way nothing changes)
connect ==
    /\ mount.ws = 0
    /\ ~mount.connecting
    /\ mount' = [mount EXCEPT !.connecting = TRUE, !.waiters = 0]
    /\ UNCHANGED MountRest

\* doConnect succeeds: the socket is accepted, its close listener set, the
\* counter reset; connect() stores the socket and clears this.connecting
doConnectOk ==
    /\ mount.connecting
    /\ mount.made < MaxSockets
    /\ LET n == mount.made + 1
       IN mount' = [mount EXCEPT !.made = n, !.live = @ \cup {n}, !.ws = n,
                                 !.connecting = FALSE, !.waiters = 0,
                                 !.reconnectAttempt = 0, !.sched = <<>>,
                                 !.wasReset = @ \/ mount.reconnectAttempt >= 2]
    /\ UNCHANGED MountRest

\* doConnect throws: connect() clears this.connecting and rejects; the catch
\* of every timer callback that waited calls scheduleReconnect
doConnectFails ==
    /\ mount.connecting
    /\ Room(mount, mount.waiters)
    /\ mount' = scheduleReconnects([mount EXCEPT !.connecting = FALSE, !.waiters = 0],
                                    mount.waiters)
    /\ UNCHANGED MountRest

\* the close event of a socket, closed by the peer or by close(): the
\* listener sets this.ws = null and calls scheduleReconnect
socketCloses(n) ==
    /\ n \in mount.live
    /\ Room(mount, 1)
    /\ mount' = scheduleReconnect([mount EXCEPT !.live = @ \ {n}, !.closing = @ \ {n},
                                                !.ws = 0])
    /\ UNCHANGED MountRest

\* a timer callback that does not look at this.closed
timerFiresAlways(id) ==
    /\ \E t \in mount.timers : t.id = id
    /\ LET m == [mount EXCEPT !.timers = {t \in @ : t.id # id}, !.reconnectTimer = 0]
       IN mount' = IF m.ws # 0 THEN m
                   ELSE IF m.connecting THEN [m EXCEPT !.waiters = @ + 1]
                   ELSE [m EXCEPT !.connecting = TRUE, !.waiters = 1]
    /\ UNCHANGED MountRest

\* a timer callback runs: reconnectTimer = null; nothing more when closed;
\* else connect(), which returns the socket, joins the attempt under way or
\* starts doConnect
timerFires(id) ==
    /\ \E t \in mount.timers : t.id = id
    /\ LET m == [mount EXCEPT !.timers = {t \in @ : t.id # id}, !.reconnectTimer = 0]
       IN mount' = IF m.closed \/ m.ws # 0 THEN m
                   ELSE IF m.connecting THEN [m EXCEPT !.waiters = @ + 1]
                   ELSE [m EXCEPT !.connecting = TRUE, !.waiters = 1]
    /\ UNCHANGED MountRest

\* close(): closed is set, the timer in reconnectTimer cleared, the socket
\* closed (it is closing until its close event comes) and forgotten
close ==
    /\ ~mount.closed
    /\ mount' = [mount EXCEPT !.closed = TRUE,
                              !.timers = {t \in @ : t.id # mount.reconnectTimer},
                              !.reconnectTimer = 0,
                              !.closing = IF mount.ws # 0 THEN @ \cup {mount.ws} ELSE @,
                              !.ws = 0]
    /\ UNCHANGED MountRest

(***************************************************************************)
(* One server session, frame by frame: WskvServer.Serve and handle of the  *)
(* Go server, WskvServer.handleMessage and dispatch of the TypeScript one. *)
(***************************************************************************)
\* open: the session still reads frames; out: the frames it has written;
\* n: the frames it has received; bad: one of them could not be decoded or
\* was of a case that is no request and no ReadyNotification
NewSession == [open |-> TRUE, out |-> <<>>, n |-> 0, bad |-> FALSE]

SessionRest == <<server, tcReads, tcCommits, tx, others, srv, mux, link, mount>>

ReadyNotify == [case |-> "readyNotify", id |-> 0]

\* a frame proto.Unmarshal / fromBinary fails on
Undecodable == [case |-> "undecodable", id |-> 0]

\* a frame of a case the server has no handler for
InitNotify == [case |-> "initNotify", id |-> 0]

RequestCases == {"getReq", "listReq", "commitReq", "resetReq"}

\* handle (Go) and dispatch (TypeScript): the response of the handler of
\* the frame's case and the store after it; for any other case handle
\* returns nil and dispatch throws
dispatch(s, msg) ==
    IF msg.case = "getReq"
    THEN [resp |-> ServeGet(s, msg), store |-> s, thrown |-> FALSE]
    ELSE IF msg.case = "listReq"
    THEN [resp |-> ServeList(s, msg), store |-> s, thrown |-> FALSE]
    ELSE IF msg.case = "commitReq"
    THEN LET r == ServeCommit(s, msg)
         IN [resp |-> CommitResp(msg.id, r), store |-> r.store, thrown |-> FALSE]
    ELSE IF msg.case = "resetReq"
    THEN [resp |-> [case |-> "resetResp", id |-> msg.id, ok |-> TRUE, error |-> ""],
          store |-> ServeReset(s), thrown |-> FALSE]
    ELSE [resp |-> NoFrame, store |-> s, thrown |-> server # "go"]

\* a server that acknowledges a ReadyNotification
handleMessageAcks(s, data) ==
    IF data = Undecodable
    THEN [resp |-> NoFrame, store |-> s, thrown |-> server # "go"]
    ELSE IF data = ReadyNotify
    THEN [resp |-> [case |-> "readyResp", id |-> 0], store |-> s, thrown |-> FALSE]
    ELSE dispatch(s, data)

\* the body of the loop of Serve (Go) and handleMessage (TypeScript): a frame
\* that does not decode is skipped by Serve and makes fromBinary throw; a
\* ReadyNotification gets no response; any other frame goes to the handlers
handleMessage(s, data) ==
    IF data = Undecodable
    THEN [resp |-> NoFrame, store |-> s, thrown |-> server # "go"]
    ELSE IF data = ReadyNotify /\ server # "go"
    THEN [resp |-> NoFrame, store |-> s, thrown |-> FALSE]
    ELSE dispatch(s, data)

\* the session receives a frame: Serve writes the response handle returned,
\* if any, and reads on; the message listener of the TypeScript side sends
\* what handleMessage returned, if it returned, and stays registered
sessionFrame(data) ==
    /\ session.open
    /\ session.n < MaxFrames
    /\ data.id = IF data.case \in RequestCases THEN reqID + 1 ELSE 0
    /\ LET r == handleMessage(store, data)
       IN /\ req' = data
          /\ store' = r.store
          /\ resp' = IF r.resp = NoFrame THEN resp ELSE r.resp
          /\ session' = [session EXCEPT
                            !.n = @ + 1,
                            !.bad = @ \/ data.case \notin RequestCases \cup {"readyNotify"},
                            !.out = IF r.resp = NoFrame THEN @ ELSE Append(@, r.resp)]
    /\ reqID' = IF data.case \in RequestCases THEN reqID + 1 ELSE reqID
    /\ UNCHANGED SessionRest

\* the connection ends: ReadMessage returns an error and Serve returns
sessionEnds ==
    /\ session.open
    /\ session' = [session EXCEPT !.open = FALSE]
    /\ UNCHANGED <<store, reqID, req, resp, SessionRest>>

\* the frames a peer may send to a session
SessionFrames ==
    {ReadyNotify, Undecodable, InitNotify}
    \cup {[case |-> "getReq", id |-> i, key |-> k] : i \in 1..MaxFrames, k \in Keys}
    \cup {[case |-> "listReq", id |-> i, start |-> <<1>>, end |-> <<2, 0>>,
           keysOnly |-> ko, limit |-> 0] : i \in 1..MaxFrames, ko \in BOOLEAN}
    \cup {[case |-> "commitReq", id |-> i, reads |-> <<>>, observed |-> <<>>,
           puts |-> w[1], dels |-> w[2]] : i \in 1..MaxFrames,
           w \in {x \in Writes : Len(x[1]) + Len(x[2]) <= MaxSrvWrites}}
    \cup {[case |-> "resetReq", id |-> i] : i \in 1..MaxFrames}

(***************************************************************************)
(* Specifications.                                                         *)
(***************************************************************************)
\* a store that holds every key but the first at version 1, as puts leave it
Seeded == [k \in Keys \ {<<1>>} |-> [value |-> 1, ver |-> 1]]

InitStores == {Seeded}

Init ==
    /\ server \in Servers
    /\ store \in InitStores
    /\ tcCommits = 0
    /\ reqID = 0
    /\ req = NoFrame
    /\ resp = NoFrame
    /\ tcReads = <<>>
    /\ tx = [p \in Procs |-> NewTxn]
    /\ others = 0
    /\ srv = IdleSrv
    /\ mux = IdleMux
    /\ link = NoLink
    /\ mount = NewMount
    /\ session = NewSession

Next == NextTc \/ NextTxn

Spec == Init /\ [][Next]_vars

\* two transactions of one client run side by side, each one get or scan and
\* then one buffered write, with nothing else touching the store
NextPair ==
    \/ \E p \in Procs, k \in Keys :
           tx[p].reads = <<>> /\ tx[p].buffer = EmptyMap /\ get(p, k)
    \/ \E p \in Procs, a \in Keys, b \in Bounds :
           tx[p].reads = <<>> /\ tx[p].buffer = EmptyMap /\ scan(p, a, b, FALSE)
    \/ \E p \in Procs, k \in Keys, v \in Values :
           tx[p].reads # <<>> /\ tx[p].buffer = EmptyMap /\ set(p, k, v)
    \/ \E p \in Procs, k \in Keys :
           tx[p].reads # <<>> /\ tx[p].buffer = EmptyMap /\ delete(p, k)
    \/ \E p \in Procs : tx[p].buffer # EmptyMap /\ txn(p)

InitPair == Init /\ server # "ts"

SpecPair == InitPair /\ [][NextPair]_vars

ObservedRecs == [key : Keys, ver : 0..1]

SrvWrites == {w \in Writes : Len(w[1]) + Len(w[2]) <= MaxSrvWrites}

\* session 1 reads while session 2 commits and resets
NextSrv ==
    \/ \E k \in Keys : GetLookup(1, k)
    \/ GetValue(1)
    \/ GetVer(1)
    \/ \E a \in Keys, b \in Bounds, ko \in BOOLEAN, l \in 0..MaxLimit :
           ListLocked(1, a, b, ko, l)
    \/ \E o \in SeqsUpTo(ObservedRecs, 1), w \in SrvWrites : CommitLock(2, o, w[1], w[2])
    \/ \E f \in {"ver", "value"} : PutField(2, f)
    \/ PutNew(2)
    \/ CommitUnlock(2)
    \/ ResetLocked(2)
    \/ \E kvs \in SeqsUpTo(PutRecs, 1) : ImportLocked(kvs)

InitSrv == Init /\ server = "go"

SpecSrv == InitSrv /\ [][NextSrv]_vars

\* run(f, maxRetry) of transaction 1: f does at most one get that reaches
\* the server, gets of buffered keys, sets and deletes, and returns nil or an
\* error, while another session writes and commits
NextRun ==
    \/ \E k \in Keys : tx[1].reads = <<>> /\ get(1, k)
    \/ \E k \in Keys : getBuffered(1, k)
    \/ \E k \in Keys, v \in Values : set(1, k, v)
    \/ \E k \in Keys : delete(1, k)
    \/ txn(1)
    \/ \E e \in Errors : txnErr(1, e)
    \/ runRetry(1)
    \/ runReturn(1)
    \/ \E k \in Keys, v \in Values \cup {Nil} : OtherTxn(k, v)

InitRun ==
    /\ server \in Servers \ {"ts"}
    /\ store \in InitStores
    /\ tcCommits = 0
    /\ reqID = 0
    /\ req = NoFrame
    /\ resp = NoFrame
    /\ tcReads = <<>>
    /\ \E m \in 0..MaxRetry :
          tx = [p \in Procs |-> IF p = 1 THEN [NewTxn EXCEPT !.maxRetry = m] ELSE NewTxn]
    /\ others = 0
    /\ srv = IdleSrv
    /\ mux = IdleMux
    /\ link = NoLink
    /\ mount = NewMount
    /\ session = NewSession

SpecRun == InitRun /\ [][NextRun]_vars

\* one connection, any of the three servers, any requests
NextServe ==
    \/ \E k \in Keys : ServeGetReq(k)
    \/ \E a \in Keys, b \in Bounds, ko \in BOOLEAN, l \in 0..MaxLimit :
           ServeListReq(a, b, ko, l)
    \/ \E o \in SeqsUpTo(ObservedRecs, 1), w \in SrvWrites : ServeCommitReq(o, w[1], w[2])
    \/ ServeResetReq

SpecServe == Init /\ [][NextServe]_vars

\* two transactions on one connection that fails at some request
NextLoss ==
    \/ \E k \in Keys : mux.conn = "open" /\ tx[1].observed = EmptyMap /\ get(1, k)
    \/ \E p \in Procs, v \in Values : set(p, <<1>>, v)
    \/ \E p \in Procs : mux.conn = "open" /\ txn(p)
    \/ \E p \in Procs : mux.conn = "failed" /\ DOMAIN tx[p].buffer = {} /\ txn(p)
    \/ \E k \in Keys, e \in {ErrClosed, ErrWrite} :
           tx[1].fail = NoFail /\ getLost(1, k, e)
    \/ \E a \in Keys, b \in Bounds, ko \in BOOLEAN, e \in {ErrClosed, ErrWrite} :
           tx[1].fail = NoFail /\ scanLost(1, a, b, ko, e)
    \/ \E k \in Keys, e \in {ErrClosed, ErrWrite} :
           tx[1].fail = NoFail /\ existLost(1, k, e)
    \/ \E p \in Procs, e \in {ErrClosed, ErrWrite}, applied \in BOOLEAN :
           txnLost(p, e, applied)
    \/ \E p \in Procs : sendBlocked(p)
    \/ \E e \in Errors : txnErr(1, e)
    \/ \E p \in Procs : runRetry(p)
    \/ \E p \in Procs : runReturn(p)
    \/ connFails

InitLoss ==
    /\ server = "go"
    /\ store \in InitStores
    /\ tcCommits = 0
    /\ reqID = 0
    /\ req = NoFrame
    /\ resp = NoFrame
    /\ tcReads = <<>>
    /\ tx = [p \in Procs |-> [NewTxn EXCEPT !.maxRetry = MaxRetry]]
    /\ others = 0
    /\ srv = IdleSrv
    /\ mux = IdleMux
    /\ link = NoLink
    /\ mount = NewMount
    /\ session = NewSession

SpecLoss == InitLoss /\ [][NextLoss]_vars

\* the mount process over the connections the peer opens one after another
NextLink ==
    \/ peerConnects
    \/ takeConn
    \/ sendReady
    \/ linkSend
    \/ \E n \in Conns : linkAnswer(n)
    \/ \E n \in Conns : linkDrops(n)

InitLink == Init /\ server = "go"

SpecLink == InitLink /\ [][NextLink]_vars

\* WskvMount with the application calling connect and close, sockets
\* closing and timers running out
NextMount ==
    \/ connect
    \/ doConnectOk
    \/ doConnectFails
    \/ \E n \in 1..MaxSockets : socketCloses(n)
    \/ \E id \in 1..(MaxTimers + 1) : timerFires(id)
    \/ close

InitMount == Init /\ server = "go"

SpecMount == InitMount /\ [][NextMount]_vars

\* a reset of the client, and a transaction of its own next to it, against
\* sessions that commit around them
NextReset ==
    \/ \E prefix \in Keys : resetScan(1, prefix)
    \/ resetAll(1)
    \/ txn(1)
    \/ \E k \in Keys : get(2, k)
    \/ \E k \in Keys, v \in Values : set(2, k, v)
    \/ txn(2)
    \/ \E k \in Keys, v \in Values \cup {Nil} : OtherTxn(k, v)

SpecReset == Init /\ [][NextReset]_vars

\* one transaction that only writes, a nil value among the values it sets
NextFold ==
    \/ \E k \in Keys, v \in Values \cup {Nil} : set(2, k, v)
    \/ \E k \in Keys : delete(2, k)
    \/ txn(2)

SpecFold == Init /\ [][NextFold]_vars

\* one connection, any of the three servers, any requests, commits of up to
\* MaxWrites puts and deletes, a key in both among them
NextOrder ==
    \/ \E k \in Keys : reqID < MaxOrder /\ ServeGetReq(k)
    \/ \E a \in Keys, b \in Bounds, ko \in BOOLEAN, l \in 0..MaxLimit :
           reqID < MaxOrder /\ ServeListReq(a, b, ko, l)
    \/ \E o \in SeqsUpTo(ObservedRecs, 1), w \in Writes :
           reqID < MaxOrder /\ ServeCommitReq(o, w[1], w[2])
    \/ reqID < MaxOrder /\ ServeResetReq

SpecOrder == Init /\ [][NextOrder]_vars

\* transactions that increment counters, each run with a retry budget
NextIncr ==
    \/ \E p \in Procs, k \in CounterKeys, d \in Deltas : incrBy(p, k, d)
    \/ \E p \in Procs : txn(p)
    \/ \E p \in Procs : runRetry(p)
    \/ \E p \in Procs : runReturn(p)

InitIncr ==
    /\ server \in Servers \ {"ts"}
    /\ store \in InitStores
    /\ tcCommits = 0
    /\ reqID = 0
    /\ req = NoFrame
    /\ resp = NoFrame
    /\ tcReads = <<>>
    /\ \E m \in 0..MaxRetry : tx = [p \in Procs |-> [NewTxn EXCEPT !.maxRetry = m]]
    /\ others = 0
    /\ srv = IdleSrv
    /\ mux = IdleMux
    /\ link = NoLink
    /\ mount = NewMount
    /\ session = NewSession

SpecIncr == InitIncr /\ [][NextIncr]_vars

\* one transaction whose context may be cancelled while it runs
NextCancel ==
    \/ \E k \in Keys : get(1, k)
    \/ \E a \in Keys, b \in Bounds : scan(1, a, b, FALSE)
    \/ \E k \in Keys : exist(1, k)
    \/ \E k \in Keys, v \in Values : set(1, k, v)
    \/ cancel(1)
    \/ txn(1)

SpecCancel == Init /\ [][NextCancel]_vars

\* transaction 1 reads and writes while transaction 2 and another session
\* delete and put keys and commit
NextAba ==
    \/ \E k \in Keys : tx[1].reads = <<>> /\ get(1, k)
    \/ \E k \in Keys, v \in Values : tx[1].reads # <<>> /\ set(1, k, v)
    \/ txn(1)
    \/ \E k \in Keys : delete(2, k)
    \/ \E k \in Keys, v \in Values : set(2, k, v)
    \/ txn(2)
    \/ \E k \in Keys, v \in Values \cup {Nil} : OtherTxn(k, v)

SpecAba == Init /\ [][NextAba]_vars

\* one session of any of the servers, receiving any frames
NextSession ==
    \/ \E f \in SessionFrames : sessionFrame(f)
    \/ sessionEnds

SpecSession == Init /\ [][NextSession]_vars

\* callers of send and readLoop over one connection that may fail
NextMux ==
    \/ \E c \in Callers : sendStore(c)
    \/ \E c \in Callers, ok \in BOOLEAN : sendWrite(c, ok)
    \/ \E c \in Callers : sendReceive(c)
    \/ readLoopFrame
    \/ readLoopErr
    \/ \E id \in 1..MaxSend : readLoopRange(id)
    \/ readLoopReturn
    \/ \E id \in 1..MaxSend : peerAnswers(id)
    \/ peerNotifies
    \/ connFails

InitMux == Init /\ server = "go"

SpecMux == InitMux /\ [][NextMux]_vars

(***************************************************************************)
(* Properties.                                                             *)
(***************************************************************************)
\* a step in which a commit request was sent and answered
CommitStep == reqID' # reqID /\ req'.case = "commitReq"

\* a step in which transaction p sent its commit and got the answer
TxnCommits(p) == tx[p].pc = "run" /\ tx'[p].pc = "done" /\ tx'[p].result # "readonly"

VerByGet(s, k) == ServeGet(s, [case |-> "getReq", id |-> 0, key |-> k]).ver

\* the version a list of the point range of k reports for k, 0 when it lists nothing
VerByList(s, k) ==
    LET rs == ServeList(s, [case |-> "listReq", id |-> 0, start |-> k,
                            end |-> pointKeyEnd(k), keysOnly |-> FALSE, limit |-> 0])
    IN IF Len(rs.entries) = 0 THEN 0 ELSE rs.entries[1].ver

\* what re-scanning [start, end) with the range's limit finds in store s, said
\* without the scan: the in-range keys with fewer than limit in-range keys
\* below them
InRange(s, r) == {k \in DOMAIN s : KeyLeq(r.start, k) /\ KeyLess(k, r.end)}

Rank(S, k) == Cardinality({x \in S : KeyLess(x, k)})

Rescan(s, r) ==
    IF r.limit > 0
    THEN {k \in InRange(s, r) : Rank(InRange(s, r), k) < r.limit}
    ELSE InRange(s, r)

\* the recorded entries are the re-scan: as many, the same key at each
\* position, and the same versions unless the range is key-only
RangeHolds(s, r) ==
    /\ Len(r.entries) = Cardinality(Rescan(s, r))
    /\ \A i \in 1..Len(r.entries) :
          /\ r.entries[i].key \in Rescan(s, r)
          /\ Rank(Rescan(s, r), r.entries[i].key) = i - 1
          /\ (~r.keysOnly => s[r.entries[i].key].ver = r.entries[i].ver)

\* the read set of a commit request no longer matches store s
Stale(s, rq) ==
    IF server = "ts"
    THEN \E j \in 1..Len(rq.reads) : ~RangeHolds(s, rq.reads[j])
    ELSE \E i \in 1..Len(rq.observed) : VerOf(s, rq.observed[i].key) # rq.observed[i].ver

PutCount(puts, k) == Cardinality({i \in 1..Len(puts) : puts[i].key = k})

\* the value of the last put of key k in puts
LastPut(puts, k) ==
    LET last == CHOOSE i \in 1..Len(puts) :
                    /\ puts[i].key = k
                    /\ \A j \in 1..Len(puts) : puts[j].key = k => j <= i
    IN puts[last].value

\* C1: a commit whose read set fails validation answers ok = false with the
\* error "write conflict", and every refused commit leaves the store exactly
\* as it was: no put, no delete, no version change.
C1_ConflictIsNoOp ==
    [][CommitStep /\ (Stale(store, req') \/ ~resp'.ok)
         => /\ ~resp'.ok
            /\ resp'.error = "write conflict"
            /\ store' = store]_vars

\* a commit that carried puts or deletes was refused
C1_Witness ==
    /\ req.case = "commitReq"
    /\ resp.case = "commitResp"
    /\ ~resp.ok
    /\ Len(req.puts) + Len(req.dels) > 0

\* C2: the range-validating commit answers ok = true exactly when every read
\* range of the request still matches its re-scan (same count, same keys at
\* the same positions under the same limit, same versions unless key-only);
\* one mismatching range among several refuses the commit, and changes
\* outside every range do not.
C2_OkIffRangesMatch ==
    [][CommitStep /\ server = "ts"
         => (resp'.ok <=> \A j \in 1..Len(req'.reads) : RangeHolds(store, req'.reads[j]))]_vars

\* a commit with two read ranges was refused for its second range alone
C2_Witness ==
    /\ server = "ts"
    /\ req.case = "commitReq"
    /\ Len(req.reads) = 2
    /\ ~resp.ok
    /\ RangeHolds(store, req.reads[1])
    /\ ~RangeHolds(store, req.reads[2])

\* C3: a transaction that scanned [a, b) gets a write conflict at commit when
\* another commit inserted a key into [a, b) or deleted one from it meanwhile.
C3_PhantomConflict ==
    [][\A p \in Procs :
         (/\ TxnCommits(p)
          /\ \E i \in 1..Len(tx[p].reads) :
                /\ tx[p].reads[i].op = "scan"
                /\ \E e \in tx[p].reads[i].events : e.kind \in {"insert", "delete"})
         => tx'[p].result = "write conflict"]_vars

\* C4: a transaction that read key k with get gets a write conflict at commit
\* when another commit put or deleted k meanwhile.
C4_PointReadConflict ==
    [][\A p \in Procs :
         (/\ TxnCommits(p)
          /\ \E i \in 1..Len(tx[p].reads) :
                /\ tx[p].reads[i].op = "get"
                /\ \E e \in tx[p].reads[i].events :
                      /\ e.kind \in {"insert", "update", "delete"}
                      /\ e.key = tx[p].reads[i].start)
         => tx'[p].result = "write conflict"]_vars

\* C5: of two concurrent transactions that read the same range with key k at
\* the same version and each buffer a put of a key in that range, at most one
\* commits.
C5_AtMostOneCommits ==
    ~ \E p \in Procs : \E q \in Procs \ {p} :
        /\ tx[p].result = "ok" /\ tx[q].result = "ok"
        /\ Len(tx[p].reads) = 1 /\ Len(tx[q].reads) = 1
        /\ tx[p].reads[1].start = tx[q].reads[1].start
        /\ tx[p].reads[1].end = tx[q].reads[1].end
        /\ \E k \in DOMAIN tx[p].observed \cap DOMAIN tx[q].observed :
              /\ tx[p].observed[k] = tx[q].observed[k]
              /\ KeyLeq(tx[p].reads[1].start, k) /\ KeyLess(k, tx[p].reads[1].end)
        /\ \A t \in {p, q} : \A k \in DOMAIN tx[t].buffer :
              /\ tx[t].buffer[k] # Nil
              /\ KeyLeq(tx[t].reads[1].start, k) /\ KeyLess(k, tx[t].reads[1].end)
        /\ tx[q].reads[1].events # {}

\* C7: a transaction whose reads were key-only (scan or exist) commits when
\* the commits made meanwhile only changed the values of keys its reads
\* returned.
C7_KeysOnlyPermissive ==
    [][\A p \in Procs :
         (/\ TxnCommits(p)
          /\ \A i \in 1..Len(tx[p].reads) :
                /\ tx[p].reads[i].keysOnly
                /\ \A e \in tx[p].reads[i].events :
                      /\ e.kind = "update"
                      /\ \E n \in 1..Len(tx[p].reads[i].entries) :
                            tx[p].reads[i].entries[n].key = e.key)
         => tx'[p].result = "ok"]_vars

\* C8: a transaction whose read was exist(prefix), which saw key b under limit
\* 1, gets a write conflict when a key below b was inserted into the range
\* meanwhile, and commits when only keys above b were inserted.
C8_LimitAware ==
    [][\A p \in Procs :
         (/\ TxnCommits(p)
          /\ Len(tx[p].reads) = 1
          /\ tx[p].reads[1].op = "exist"
          /\ Len(tx[p].reads[1].entries) = 1
          /\ tx[p].reads[1].events # {})
         => LET b == tx[p].reads[1].entries[1].key
                ev == tx[p].reads[1].events
            IN /\ (\E e \in ev : e.kind = "insert" /\ KeyLess(e.key, b))
                     => tx'[p].result = "write conflict"
               /\ (\A e \in ev : e.kind = "insert" /\ KeyLess(b, e.key))
                     => tx'[p].result = "ok"]_vars

\* C9 as stated: after a successful commit whose puts contain key k, k is at
\* its previous version plus 1, or at 1 if it was absent, with the put value.
C9_VersionRuleAnyPuts ==
    [][CommitStep /\ resp'.ok
         => \A k \in Keys : PutCount(req'.puts, k) >= 1 =>
               /\ k \in DOMAIN store'
               /\ VerByGet(store', k) = (IF k \in DOMAIN store THEN store[k].ver + 1 ELSE 1)
               /\ store'[k].value = LastPut(req'.puts, k)]_vars

\* C9: after a successful commit whose puts name key k exactly once and whose
\* deletes do not name it, get(k) finds k at its previous version plus 1, or
\* at 1 if it was absent, with the put value.
C9_VersionRule ==
    [][CommitStep /\ resp'.ok
         => \A k \in Keys :
               PutCount(req'.puts, k) = 1 /\ k \notin SeqRange(req'.dels) =>
                  /\ k \in DOMAIN store'
                  /\ VerByGet(store', k) = (IF k \in DOMAIN store THEN store[k].ver + 1 ELSE 1)
                  /\ store'[k].value = LastPut(req'.puts, k)]_vars

\* a successful commit put a key that was present at version 1 once
C9_Witness ==
    /\ req.case = "commitReq"
    /\ resp.case = "commitResp"
    /\ resp.ok
    /\ \E k \in DOMAIN store :
          /\ PutCount(req.puts, k) = 1
          /\ k \notin SeqRange(req.dels)
          /\ store[k].ver = 2
          /\ store[k].value = LastPut(req.puts, k)

\* C10 as stated: across a successful commit the version a get or a list
\* reports for a key never decreases.
C10_NeverDecreases ==
    [][CommitStep /\ resp'.ok
         => \A k \in Keys :
               /\ VerByGet(store', k) >= VerByGet(store, k)
               /\ VerByList(store', k) >= VerByList(store, k)]_vars

\* C10: across a successful commit that does not delete key k, the version a
\* get or a list reports for k grows by exactly 1 for each put of k in the
\* commit, so it never decreases.
C10_Monotonic ==
    [][CommitStep /\ resp'.ok
         => \A k \in Keys : k \notin SeqRange(req'.dels) =>
               /\ VerByGet(store', k) = VerByGet(store, k) + PutCount(req'.puts, k)
               /\ VerByList(store', k) = VerByList(store, k) + PutCount(req'.puts, k)]_vars

\* a successful commit put one present key twice: its version grew by 2
C10_Witness ==
    /\ req.case = "commitReq"
    /\ resp.case = "commitResp"
    /\ resp.ok
    /\ \E k \in DOMAIN store :
          /\ PutCount(req.puts, k) = 2
          /\ k \notin SeqRange(req.dels)
          /\ store[k].ver = 3

\* C6: the answer of a get is a (found, value, ver) its key had as a whole:
\* at the lookup, or after one of the puts or commits made while the get ran.
C6_ReadsSeeWholeCommits ==
    \A c \in Sess :
        srv.sess[c].pc = "idle" /\ srv.sess[c].rq.case = "getReq"
            => [found |-> srv.sess[c].resp.found,
                value |-> srv.sess[c].resp.value,
                ver |-> srv.sess[c].resp.ver] \in srv.sess[c].seen

\* a step in which a request of the given case was served
Served(case) == reqID' # reqID /\ req'.case = case

GetOf(s, k) == ServeGet(s, [case |-> "getReq", id |-> 0, key |-> k])

\* C11: after a successful commit that lists key k in dels, get(k) reports
\* found = false; a delete of an absent key is no error, the commit is refused
\* only for its read set; and a put of an absent key, as k is after its
\* delete, creates it at version 1.
C11_DeleteSemantics ==
    [][Served("commitReq")
         => /\ resp'.ok => \A k \in SeqRange(req'.dels) :
                  /\ ~GetOf(store', k).found
                  /\ GetOf(store', k).ver = 0
            /\ ~Stale(store, req') => resp'.ok /\ resp'.error = ""
            /\ resp'.ok => \A k \in Keys \ DOMAIN store :
                  PutCount(req'.puts, k) = 1 /\ k \notin SeqRange(req'.dels)
                     => GetOf(store', k).found /\ GetOf(store', k).ver = 1]_vars

\* the first commit served deleted a key the initial store held
C11_Witness ==
    /\ reqID = 1
    /\ req.case = "commitReq"
    /\ resp.ok
    /\ \E k \in SeqRange(req.dels) : k \in DOMAIN Seeded /\ k \notin DOMAIN store

\* C12: a get of a key that is not in the store answers found = false and
\* ver = 0, a get of a stored key answers found = true with its version, and
\* every stored entry has a value and a version of at least 1.
C12_AbsentIsZero ==
    /\ \A k \in Keys \ DOMAIN store :
          ~GetOf(store, k).found /\ GetOf(store, k).ver = 0
    /\ \A k \in DOMAIN store :
          /\ store[k].ver >= 1
          /\ store[k].value \in Values
          /\ GetOf(store, k).found
          /\ GetOf(store, k).ver = store[k].ver
    /\ req.case = "getReq" =>
          /\ resp.found <=> req.key \in DOMAIN store
          /\ resp.ver = VerOf(store, req.key)

\* a get of an absent key was answered while the store held other keys
C12_Witness ==
    /\ req.case = "getReq"
    /\ ~resp.found
    /\ resp.ver = 0
    /\ DOMAIN store # {}

\* C13: a list of [start, end) with a limit answers exactly the stored keys k
\* with start <= k < end, in strictly ascending order, cut to the first limit
\* keys when limit > 0 and whole when limit = 0; an answer shorter than the
\* limit holds every key of the range.
C13_ListIsRange ==
    [][Served("listReq")
         => LET es == resp'.entries
                got == {es[i].key : i \in 1..Len(es)}
            IN /\ got = Rescan(store, req')
               /\ \A i \in 1..Len(es) : \A j \in 1..Len(es) :
                     i < j => KeyLess(es[i].key, es[j].key)
               /\ \A i \in 1..Len(es) :
                     KeyLeq(req'.start, es[i].key) /\ KeyLess(es[i].key, req'.end)
               /\ req'.limit > 0 => Len(es) <= req'.limit
               /\ req'.limit = 0 \/ Len(es) < req'.limit => got = InRange(store, req')]_vars

\* a list with limit 1 answered one key of a range that holds two
C13_Witness ==
    /\ req.case = "listReq"
    /\ req.limit = 1
    /\ Len(resp.entries) = 1
    /\ Cardinality(InRange(store, req)) = 2
    /\ \A k \in InRange(store, req) : KeyLeq(resp.entries[1].key, k)

\* C14: in the answer to a list with keysOnly = true no entry carries a value
\* and each carries its key and stored version; with keysOnly = false each
\* entry carries the stored value as well.
C14_KeysOnlyNoValues ==
    [][Served("listReq")
         => \A i \in 1..Len(resp'.entries) :
               LET e == resp'.entries[i]
               IN /\ e.key \in DOMAIN store
                  /\ e.ver = store[e.key].ver
                  /\ e.value = IF req'.keysOnly THEN Nil ELSE store[e.key].value]_vars

\* a key-only list answered an entry without value
C14_Witness ==
    /\ req.case = "listReq"
    /\ req.keysOnly
    /\ Len(resp.entries) > 0
    /\ resp.entries[1].value = Nil
    /\ resp.entries[1].ver >= 1

\* C15: after a reset answered ok = true, a get of any key answers
\* found = false and a list of any range answers no entries, whatever the
\* store held before.
C15_ResetRemovesAll ==
    [][Served("resetReq") /\ resp'.ok
         => /\ \A k \in Keys : ~GetOf(store', k).found
            /\ \A a \in Keys, b \in Bounds, ko \in BOOLEAN, l \in 0..MaxLimit :
                  ServeList(store', [case |-> "listReq", id |-> 0, start |-> a, end |-> b,
                                     keysOnly |-> ko, limit |-> l]).entries = <<>>]_vars

\* the first request served was a reset, of the initial store with its keys
C15_Witness ==
    /\ reqID = 1
    /\ req.case = "resetReq"
    /\ resp.ok
    /\ DOMAIN Seeded # {}
    /\ DOMAIN store = {}

\* a step in which f of transaction 1 returned and txn went on to its end
TxnEnds == tx[1].pc = "run" /\ tx'[1].pc = "done"

\* a step of run(f, maxRetry) after txn returned
RunGoesOn == tx[1].pc = "done" /\ tx'[1] # tx[1]

NothingSent == reqID' = reqID /\ req' = req /\ resp' = resp

\* C16: when f issued no set and no delete and returned nil, txn sends no
\* commit request and returns nil, an error shouldRetry does not take for a
\* conflict, whatever other sessions committed between its reads.
C16_ReadOnlyNoCommit ==
    [][TxnEnds /\ tx[1].buffer = EmptyMap /\ tx'[1].result # "error"
            => /\ NothingSent
               /\ store' = store
               /\ tx'[1].result = "readonly"
               /\ ErrOf(tx'[1]) = NoErr
               /\ ~shouldRetry(ErrOf(tx'[1]))]_vars

\* a read-only txn returned after another session changed the key it had read
C16_Witness ==
    /\ tx[1].pc = "done"
    /\ tx[1].result = "readonly"
    /\ Len(tx[1].reads) = 1
    /\ tx[1].reads[1].events # {}
    /\ req.case = "getReq"

\* C17: when the commit was refused and fewer than maxRetry retries were made,
\* run calls f again on a new transaction with an empty observed set and an
\* empty buffer; it returns "write conflict" only when maxRetry retries were
\* made, and never makes more.
C17_RetryOnConflict ==
    [][/\ tx'[1].retry <= tx'[1].maxRetry
       /\ RunGoesOn /\ tx[1].result = "write conflict"
            => IF tx[1].retry < tx[1].maxRetry
               THEN /\ tx'[1].pc = "run"
                    /\ tx'[1].observed = EmptyMap
                    /\ tx'[1].buffer = EmptyMap
                    /\ tx'[1].retry = tx[1].retry + 1
                    /\ tx'[1].maxRetry = tx[1].maxRetry
               ELSE /\ tx'[1].pc = "returned"
                    /\ ErrOf(tx'[1]) = <<"write conflict">>]_vars

\* f runs again, on a new transaction, right after its commit was refused
C17_Witness ==
    /\ tx[1].pc = "run"
    /\ tx[1].retry = 1
    /\ tx[1].observed = EmptyMap
    /\ tx[1].buffer = EmptyMap
    /\ req.case = "commitReq"
    /\ resp.case = "commitResp"
    /\ ~resp.ok

\* C18 as stated: when f returns an error no commit request is sent, the
\* store is not changed, and run returns that error.
C18_AbortSurfaces ==
    [][/\ TxnEnds /\ tx'[1].result = "error"
            => NothingSent /\ store' = store
       /\ RunGoesOn /\ tx[1].result = "error"
            => tx'[1].pc = "returned" /\ ErrOf(tx'[1]) = tx[1].err]_vars

\* C18: when f returns an error no commit request is sent for that call and
\* its buffered writes do not reach the store; run returns that error unless
\* shouldRetry takes it for a write conflict with retries left.
C18_AbortSurfacesUnlessConflict ==
    [][/\ TxnEnds /\ tx'[1].result = "error"
            => NothingSent /\ store' = store
       /\ (/\ RunGoesOn /\ tx[1].result = "error"
           /\ ~(shouldRetry(tx[1].err) /\ tx[1].retry < tx[1].maxRetry))
            => tx'[1].pc = "returned" /\ ErrOf(tx'[1]) = tx[1].err]_vars

\* run returned f's error with a write still buffered and nothing ever sent
C18_Witness ==
    /\ tx[1].pc = "returned"
    /\ tx[1].result = "error"
    /\ tx[1].err = <<"EIO">>
    /\ DOMAIN tx[1].buffer # {}
    /\ reqID = 0
    /\ store = Seeded

\* C19: a get of a key the transaction has set returns the buffered value,
\* a get of a key it has deleted returns nil, both without a request; a set or
\* a delete sends nothing and leaves the store alone; the store changes only
\* when a commit succeeds.
C19_ReadYourWrites ==
    [][/\ (/\ tx[1].pc = "run"
           /\ tx'[1].ret # tx[1].ret
           /\ tx'[1].ret.key \in DOMAIN tx[1].buffer)
            => /\ tx'[1].ret.value = tx[1].buffer[tx'[1].ret.key]
               /\ NothingSent
               /\ tx'[1].observed = tx[1].observed
       /\ tx'[1].buffer # tx[1].buffer
            => NothingSent /\ store' = store
       /\ store' # store
            => \/ others' # others
               \/ Served("commitReq") /\ resp'.ok /\ tx'[1].result = "ok"]_vars

\* a get after a delete returned nil for a key the server holds, nothing sent
C19_Witness ==
    /\ tx[1].pc = "run"
    /\ tx[1].ret.key \in DOMAIN tx[1].buffer
    /\ tx[1].ret.value = Nil
    /\ tx[1].ret.key \in DOMAIN store
    /\ reqID = 0

\* C20: once readLoop has returned, no caller of send is left waiting on a
\* channel that holds nothing: requests pending at the failure were given
\* nil, and a later send returns an error instead of blocking.
C20_NoCallerBlocks ==
    ~(/\ mux.reader = "stopped"
      /\ \E c \in Callers : /\ mux.caller[c].pc = "wait"
                            /\ mux.ch[mux.caller[c].id] = <<>>)

\* the callers of send that have stored their channel and not yet returned
Outstanding == {c \in Callers : mux.caller[c].pc \in {"stored", "wait"}}

\* C21: two outstanding requests never carry the same id, and ids are taken
\* from one counter that only grows; a channel holds at most one frame, the
\* response frame a caller takes from it carries the id of the request that
\* caller sent, and nothing more is put on a channel its caller has taken a
\* frame from, in whatever order the peer answers.
C21_ResponseRouting ==
    /\ [](\A c, d \in Outstanding : c # d => mux.caller[c].id # mux.caller[d].id)
    /\ [](\A c \in Callers : mux.caller[c].id <= reqID)
    /\ [](\A i \in 1..MaxSend :
            /\ Len(mux.ch[i]) <= 1
            /\ \A j \in 1..Len(mux.ch[i]) : mux.ch[i][j] \in {NilMsg, RespMsg(i)})
    /\ [](\A c \in Callers :
            mux.caller[c].pc = "returned" /\ mux.caller[c].err = "nil"
                => /\ mux.caller[c].resp = RespMsg(mux.caller[c].id)
                   /\ mux.ch[mux.caller[c].id] = <<>>
                   /\ mux.caller[c].id \notin mux.pending)
    /\ [][/\ reqID' >= reqID
          /\ \A c \in Callers :
                mux'.caller[c].id # mux.caller[c].id => mux'.caller[c].id > reqID]_vars

\* both requests were outstanding, the peer answered the second first, and
\* the second caller holds the second response while the first is still queued
C21_Witness ==
    /\ mux.caller[1].pc = "wait" /\ mux.caller[1].id = 1
    /\ mux.caller[2].pc = "returned" /\ mux.caller[2].id = 2
    /\ mux.caller[2].resp = RespMsg(2)
    /\ mux.inbound = <<RespMsg(1)>>

\* txn returned the error of a commit whose frame went out on an open
\* connection that failed before the response came
Indeterminate(t) ==
    /\ t.pc \in {"done", "returned"}
    /\ t.fail.rpc = "commit"
    /\ t.fail.conn = "open"

\* txn returned the error of a commit whose frame was written when the
\* connection had already failed
FailedBeforeCommit(t) ==
    /\ t.pc \in {"done", "returned"}
    /\ t.fail.rpc = "commit"
    /\ t.fail.conn = "failed"

\* C22: the error txn returns for a commit that was in flight when the
\* connection failed is not a write conflict, is not taken for one by
\* shouldRetry, and differs from the error txn returns for a commit that
\* could not be sent because the connection had failed before.
C22_IndeterminateDistinct ==
    \A p \in Procs :
        Indeterminate(tx[p])
            => /\ ErrOf(tx[p]) # <<"write conflict">>
               /\ ~shouldRetry(ErrOf(tx[p]))
               /\ \A q \in Procs :
                     FailedBeforeCommit(tx[q]) => ErrOf(tx[q]) # ErrOf(tx[p])

\* C23: a transaction in which a get, a scan or an exist met a send error
\* does not end with a nil error.
C23_ReadFailureSurfaces ==
    \A p \in Procs :
        (/\ tx[p].pc \in {"done", "returned"}
         /\ tx[p].fail.rpc \in {"get", "scan", "exist"})
            => ErrOf(tx[p]) # NoErr

\* C24: the connection the client is bound to has a readLoop reading it
\* unless it has failed, the process has not died, and once the goroutine
\* that took a connection has finished with it a ReadyNotification was
\* written on it.
C24_Rebinds ==
    /\ ~link.panicked
    /\ link.ws # 0 /\ link.ws \notin link.down => link.ws \in link.readers
    /\ link.ws # 0 /\ link.handed = 0 /\ link.main = "serving"
          => link.ws \in link.readySent

\* the schedule of the doc comment of WskvMount: 1s, 2s, 4s, 8s, then 10s
BackoffTable(n) == IF n < 4 THEN <<1000, 2000, 4000, 8000>>[n + 1] ELSE 10000

\* C25: the n-th reconnect scheduled since the last connection that
\* succeeded (n = 0, 1, 2, ...) has the delay 1s, 2s, 4s, 8s, 10s, 10s, ...;
\* a connection that succeeds sets the counter to 0, so that the next
\* reconnect scheduled waits 1s.
C25_Backoff ==
    /\ [](\A i \in 1..Len(mount.sched) : mount.sched[i] = BackoffTable(i - 1))
    /\ [](mount.reconnectAttempt = Len(mount.sched))
    /\ [](\A t \in mount.timers : \E n \in 0..MaxAttempt : t.delay = BackoffTable(n))
    /\ [][mount'.made # mount.made
            => mount'.reconnectAttempt = 0 /\ mount'.sched = <<>>]_vars
    /\ [][mount.sched = <<>> /\ mount'.sched # <<>>
            => /\ mount'.sched = <<1000>>
               /\ \E t \in mount'.timers \ mount.timers : t.delay = 1000]_vars

\* after two or more reconnects scheduled in a row a connection succeeded,
\* its socket closed, and the reconnect scheduled then waits 1s
C25_Witness ==
    /\ mount.wasReset
    /\ mount.sched = <<1000>>
    /\ mount.ws = 0
    /\ ~mount.closed

\* a timer callback started or joined a connection attempt in this step
AttemptStarts == mount'.waiters > mount.waiters

\* a reconnect was scheduled in this step
Scheduled == mount'.timers \ mount.timers # {}

\* C26: while close() has not been called, the close event of a socket and
\* the failure of an attempt a timer callback made each schedule a
\* reconnect, and a mount that lost its socket has a timer pending or an
\* attempt under way; once close() has been called no timer callback starts
\* an attempt and no reconnect is scheduled, pending timers included.
C26_ReconnectLifecycle ==
    /\ [][~mount.closed /\ mount'.live # mount.live /\ mount'.made = mount.made
            => Scheduled]_vars
    /\ [][(/\ ~mount.closed /\ mount.connecting /\ ~mount'.connecting
           /\ mount'.made = mount.made /\ mount.waiters > 0)
            => Scheduled]_vars
    /\ [](~mount.closed /\ mount.ws = 0 /\ mount.made > 0
            => mount.timers # {} \/ mount.connecting)
    /\ [][mount.closed => ~AttemptStarts /\ ~Scheduled]_vars
    /\ [][mount'.closed /\ ~mount.closed
            => mount'.reconnectTimer = 0 /\ mount'.ws = 0]_vars

\* close() was called while a timer it holds no handle of was pending; the
\* timer is still to run out
C26_Witness ==
    /\ mount.closed
    /\ mount.timers # {}
    /\ mount.reconnectTimer = 0
    /\ mount.ws = 0
    /\ ~mount.connecting

\* the response case that answers a request case
RespCaseOf(case) ==
    IF case = "getReq" THEN "getResp"
    ELSE IF case = "listReq" THEN "listResp"
    ELSE IF case = "commitReq" THEN "commitResp"
    ELSE "resetResp"

\* the session received a frame in this step
Received == session'.n # session.n

\* C27: a session that receives a ReadyNotification writes no frame and
\* leaves the store as it is; a session that receives a GetReq, ListReq,
\* CommitReq or ResetReq writes exactly one frame, of the matching
\* response case and with the id of the request.
C27_ReadyUnanswered ==
    [][/\ Received /\ req' = ReadyNotify
            => session'.out = session.out /\ store' = store
       /\ Received /\ req'.case \in RequestCases
            => /\ Len(session'.out) = Len(session.out) + 1
               /\ SubSeq(session'.out, 1, Len(session.out)) = session.out
               /\ session'.out[Len(session'.out)].case = RespCaseOf(req'.case)
               /\ session'.out[Len(session'.out)].id = req'.id]_vars

\* a ReadyNotification came between two requests: two frames were written
C27_Witness ==
    /\ session.n = 3
    /\ req.case \in RequestCases
    /\ Len(session.out) = 2
    /\ session.out[2].id = 2
    /\ ~session.bad

\* C28: a session that received a frame it could not decode, or a frame of
\* a case that is not a request, reads no more frames.
C28_BadFrameFatal == session.bad => ~session.open

\* the read range a CommitReq is to carry for a read of the history
RangeOf(r) ==
    [start |-> r.start, end |-> r.end, entries |-> r.entries,
     keysOnly |-> r.keysOnly, limit |-> r.limit]

\* txn sends the commit of transaction p in this step
CommitSent(p) ==
    /\ tx[p].pc = "run"
    /\ tx'[p].pc = "done"
    /\ reqID' # reqID
    /\ req'.case = "commitReq"

\* C29: the CommitReq the client runtime sends carries one ReadRange for
\* each scan, exists and point get the transaction performed, with the
\* start, end, limit and entries of that read, a get as [k, k.0x00), and
\* keysOnly set exactly for an exists and a key-only scan; the flat list of
\* (key, ver) pairs does not carry the read set.
C29_CommitCarriesRanges ==
    [][\A p \in Procs :
          CommitSent(p) =>
             /\ Len(req'.reads) = Len(tx[p].reads)
             /\ \A i \in 1..Len(req'.reads) :
                   /\ req'.reads[i] = RangeOf(tx[p].reads[i])
                   /\ tx[p].reads[i].op = "exist" => req'.reads[i].keysOnly
                   /\ tx[p].reads[i].op = "get"
                        => req'.reads[i].end = pointKeyEnd(req'.reads[i].start)
             /\ req'.observed = <<>>]_vars

\* key k lies in the range read r covers
Within(k, r) == KeyLeq(r.start, k) /\ KeyLess(k, r.end)

\* the keys a sequence of entries names
KeysOf(entries) == {entries[i].key : i \in 1..Len(entries)}

\* C30: the commit a prefix-scoped reset sends carries the observation its
\* scan made of [p, p+1), a delete for every key the scan returned and no
\* delete of a key outside [p, p+1); when it succeeds, no key that lay in
\* [p, p+1) when it was committed remains and every other key is as it was.
C30_ResetAtomic ==
    [][\A p \in Procs :
          (CommitSent(p) /\ tx[p].reads # <<>> /\ tx[p].reads[1].op = "reset") =>
             LET r == tx[p].reads[1]
             IN /\ \/ \E i \in 1..Len(req'.reads) :
                         /\ req'.reads[i].start = r.start
                         /\ req'.reads[i].end = r.end
                         /\ req'.reads[i].entries = r.entries
                    \/ /\ r.entries # <<>>
                       /\ \A n \in 1..Len(r.entries) : \E m \in 1..Len(req'.observed) :
                             req'.observed[m] = r.entries[n]
                /\ {req'.dels[n] : n \in 1..Len(req'.dels)} = KeysOf(r.entries)
                /\ \A n \in 1..Len(req'.dels) : Within(req'.dels[n], r)
                /\ req'.puts = <<>>
                /\ tx'[p].result = "ok" =>
                      /\ \A k \in DOMAIN store : Within(k, r) => k \notin DOMAIN store'
                      /\ \A k \in Keys : ~Within(k, r) =>
                            /\ (k \in DOMAIN store) = (k \in DOMAIN store')
                            /\ k \in DOMAIN store => store'[k] = store[k]]_vars

\* the keys a sequence of keys names
KeySet(keys) == {keys[i] : i \in 1..Len(keys)}

\* no key is listed twice in the puts or in the dels of the request, and no
\* key is listed in both
ListedOnce(rq) ==
    /\ \A i, j \in 1..Len(rq.puts) : rq.puts[i].key = rq.puts[j].key => i = j
    /\ \A i, j \in 1..Len(rq.dels) : rq.dels[i] = rq.dels[j] => i = j
    /\ KeysOf(rq.puts) \cap KeySet(rq.dels) = {}

LastValue(puts, k) ==
    puts[CHOOSE i \in 1..Len(puts) :
            /\ puts[i].key = k
            /\ \A j \in (i + 1)..Len(puts) : puts[j].key # k].value

\* C32: a commit is accepted exactly when every observation of its read set
\* matches the store as it was before the commit, whatever the commit itself
\* writes; an accepted commit leaves every key of its dels absent, also one
\* listed in its puts, every other key of its puts with the value of its
\* last put, and every other key as it was; a refused commit changes nothing.
C32_ValidatePutsDeletes ==
    [][Served("commitReq") =>
          /\ resp'.ok = \A i \in 1..Len(req'.observed) :
                           GetOf(store, req'.observed[i].key).ver = req'.observed[i].ver
          /\ ~resp'.ok => store' = store
          /\ resp'.ok =>
                \A k \in Keys :
                   IF k \in KeySet(req'.dels) THEN k \notin DOMAIN store'
                   ELSE IF k \in KeysOf(req'.puts)
                   THEN /\ k \in DOMAIN store'
                        /\ store'[k].value = LastValue(req'.puts, k)
                   ELSE /\ (k \in DOMAIN store') = (k \in DOMAIN store)
                        /\ k \in DOMAIN store => store'[k] = store[k]]_vars

\* an accepted commit that observed the key it put and deleted: the key was
\* there before and is gone
C32_Witness ==
    /\ req.case = "commitReq"
    /\ resp.ok
    /\ Len(req.observed) = 1
    /\ req.observed[1].ver > 0
    /\ Len(req.puts) = 1
    /\ req.puts[1].key = req.observed[1].key
    /\ req.dels = <<req.puts[1].key>>
    /\ req.puts[1].key \notin DOMAIN store

\* what tx.get(k) returns to transaction p: the buffered value, or the value
\* the server holds, nil when it holds none
GetReturns(p, k) ==
    IF k \in DOMAIN tx[p].buffer THEN tx[p].buffer[k]
    ELSE IF GetOf(store, k).found THEN GetOf(store, k).value ELSE Nil

\* transaction p called incrBy on key k in this step
IncrStep(p, k) ==
    /\ k \in DOMAIN tx'[p].incr
    /\ tx'[p].ret.key = k
    /\ tx[p].pc = "run" /\ tx'[p].pc = "run"
    /\ tx'[p].ret # tx[p].ret \/ tx'[p].incr # tx[p].incr

\* the sum of the deltas transaction p has committed on key k
Added(p, k) ==
    IF tx[p].result = "ok" /\ k \in DOMAIN tx[p].incr THEN tx[p].incr[k].sum ELSE 0

\* the counter the server holds under key k
CounterOf(s, k) == parseCounter(IF GetOf(s, k).found THEN GetOf(s, k).value ELSE Nil)

\* every counter is what it was at the start plus the deltas committed on it
NoIncrementLost ==
    \A k \in Keys : CounterOf(store, k) = CounterOf(Seeded, k) + Added(1, k) + Added(2, k)

\* C33 as stated: incrBy(k, d) returns the value get(k) read plus d and
\* buffers that value; and no increment of a committed transaction is lost.
C33_IncrBy ==
    /\ [][\A p \in Procs, k \in Keys :
             IncrStep(p, k) =>
                /\ tx'[p].ret = [key |-> k,
                                 value |-> parseCounter(GetReturns(p, k)) + tx'[p].incr[k].d]
                /\ k \in DOMAIN tx'[p].buffer
                /\ tx'[p].buffer[k] = packCounter(tx'[p].ret.value)]_vars
    /\ []NoIncrementLost

\* C33: incrBy(k, d) returns the value get(k) read plus d; when d
\* is not 0 it buffers that value, when d is 0 it leaves the buffer as it
\* is; and every counter is what it was at the start plus the deltas of the
\* transactions that committed successfully: from an absent counter, after n
\* transactions doing incrBy(k, 1) have committed, get(k) reads n.
C33_IncrByNonZero ==
    /\ [][\A p \in Procs, k \in Keys :
             IncrStep(p, k) =>
                /\ tx'[p].ret = [key |-> k,
                                 value |-> parseCounter(GetReturns(p, k)) + tx'[p].incr[k].d]
                /\ IF tx'[p].incr[k].d # 0
                   THEN /\ k \in DOMAIN tx'[p].buffer
                        /\ tx'[p].buffer[k] = packCounter(tx'[p].ret.value)
                   ELSE tx'[p].buffer = tx[p].buffer]_vars
    /\ []NoIncrementLost

\* two transactions each added 1 to the counter that was absent, the second
\* after a retry, both committed, and the counter reads 2
C33_Witness ==
    /\ \A p \in Procs : tx[p].result = "ok" /\ tx[p].incr = (<<1>> :> [sum |-> 1, d |-> 1])
    /\ \E p \in Procs : tx[p].retry = 1
    /\ CounterOf(store, <<1>>) = 2

\* C34: a transaction whose context was cancelled while it ran sends no
\* CommitReq and its buffered writes reach no store; a commit that was sent
\* has its outcome returned.
C34_CancelDiscards ==
    [][\A p \in Procs :
          /\ (tx[p].pc = "run" /\ tx'[p].pc = "done" /\ tx[p].cancelled)
                => reqID' = reqID /\ store' = store
          /\ CommitSent(p) => tx'[p].result \in {"ok", "write conflict"}]_vars

\* C35: at most one WebSocket that the mount accepted is open at any time,
\* and while the mount holds a socket no connection attempt is under way.
C35_OneSocket ==
    /\ Cardinality(mount.live \ mount.closing) <= 1
    /\ mount.ws # 0 => ~mount.connecting

\* C39: once close() has been called the mount holds no WebSocket.
C39_ClosedHoldsNone == mount.closed => mount.ws = 0

\* the version read r of the history saw for key k: that of its entry for
\* k, 0 when it is a get of k that found nothing, -1 when it did not observe k
VerSeen(r, k) ==
    IF \E i \in 1..Len(r.entries) : r.entries[i].key = k
    THEN r.entries[CHOOSE i \in 1..Len(r.entries) : r.entries[i].key = k].ver
    ELSE IF r.op = "get" /\ r.start = k THEN 0
    ELSE -1

\* transaction p observed some key twice, at two different versions
SawTwoVersions(p) ==
    \E k \in Keys : \E i, j \in 1..Len(tx[p].reads) :
       /\ i < j
       /\ VerSeen(tx[p].reads[i], k) >= 0
       /\ VerSeen(tx[p].reads[j], k) >= 0
       /\ VerSeen(tx[p].reads[i], k) # VerSeen(tx[p].reads[j], k)

\* C36: the commit of a transaction that observed one key at two different
\* versions does not return ok.
C36_RereadConflicts ==
    [][\A p \in Procs : (CommitSent(p) /\ SawTwoVersions(p)) => ~resp'.ok]_vars

\* transaction p read key k as present, and commits since then deleted k
\* and inserted it again
Recreated(p, k) ==
    \E i \in 1..Len(tx[p].reads) :
       /\ VerSeen(tx[p].reads[i], k) > 0
       /\ [kind |-> "delete", key |-> k] \in tx[p].reads[i].events
       /\ [kind |-> "insert", key |-> k] \in tx[p].reads[i].events

\* C37: the commit of a transaction that read key k is refused when other
\* commits deleted k and put it again after the read.
C37_NoABA ==
    [][\A p \in Procs, k \in Keys : (CommitSent(p) /\ Recreated(p, k)) => ~resp'.ok]_vars

\* C38: the pending map holds no entry for the request of a send that has
\* returned, so it is empty once readLoop has returned and no send is under
\* way; and the channel readLoop is about to signal always has room.
C38_PendingCleared ==
    /\ \A c \in Callers : mux.caller[c].pc = "returned" => mux.caller[c].id \notin mux.pending
    /\ (mux.reader = "stopped" /\ Outstanding = {}) => mux.pending = {}
    /\ mux.reader = "range" => \A id \in mux.pending \ mux.visited : mux.ch[id] = <<>>

====
